---- MODULE Spec2Model ----
(***************************************************************************)
(* Model of the meal planner's Store (src/js/store.js) on top of the       *)
(* Google Sheets wrapper (src/js/sheets.js) and the quantity / item-name   *)
(* helpers (src/js/utils/units.js).                                        *)
(*                                                                         *)
(* Conventions                                                             *)
(*  - A JavaScript string whose characters matter (item names, quantity,   *)
(*    servings and price texts) is a sequence of one-character strings;    *)
(*    '' is << >>.  Strings that the code only compares with === (ids,     *)
(*    week_start, day, status, unit, category, flags) are TLA+ strings.    *)
(*  - A JavaScript number is an exact rational <<n, d>> in lowest terms    *)
(*    with d > 0; <<0,0>> is NaN, <<1,0>> / <<-1,0>> are +/-Infinity.      *)
(*    Binary floating-point rounding error is not modelled.                *)
(*  - A sheet tab is the sequence of its data rows; the header row that    *)
(*    the setup guide creates is always present and is not represented.    *)
(***************************************************************************)
EXTENDS Integers, Sequences, FiniteSets, TLC

\* ------------------------------------------------------------------------
\* JavaScript numbers as exact rationals
\* ------------------------------------------------------------------------

NaN == <<0, 0>>

Zero == <<0, 1>>

Abs(n) == IF n < 0 THEN -n ELSE n

Sign(n) == IF n < 0 THEN -1 ELSE IF n > 0 THEN 1 ELSE 0

RECURSIVE GCD(_, _)
GCD(a, b) == IF b = 0 THEN a ELSE GCD(b, a % b)

\* n / d for integers n, d (JavaScript division: x/0 is +/-Infinity, 0/0 NaN)
Rat(n, d) ==
    IF d = 0 THEN <<Sign(n), 0>>
    ELSE LET g == GCD(Abs(n), Abs(d))
             s == IF d < 0 THEN -1 ELSE 1
         IN  <<(s * n) \div g, (s * d) \div g>>

IsFinite(x) == x[2] # 0

IsNaN(x) == x = NaN

RAdd(x, y) ==
    IF IsFinite(x) /\ IsFinite(y) THEN Rat(x[1] * y[2] + y[1] * x[2], x[2] * y[2])
    ELSE IF IsNaN(x) \/ IsNaN(y) THEN NaN
    ELSE IF ~IsFinite(x) /\ ~IsFinite(y) /\ x # y THEN NaN
    ELSE IF IsFinite(x) THEN y ELSE x

RMul(x, y) ==
    IF IsFinite(x) /\ IsFinite(y) THEN Rat(x[1] * y[1], x[2] * y[2])
    ELSE IF IsNaN(x) \/ IsNaN(y) \/ x[1] = 0 \/ y[1] = 0 THEN NaN
    ELSE <<Sign(x[1]) * Sign(y[1]), 0>>

RDiv(x, y) ==
    IF IsFinite(x) /\ IsFinite(y) THEN Rat(x[1] * y[2], x[2] * y[1])
    ELSE IF IsNaN(x) \/ IsNaN(y) \/ (~IsFinite(x) /\ ~IsFinite(y)) THEN NaN
    ELSE IF IsFinite(x) THEN Zero
    ELSE <<Sign(x[1]) * (IF y[1] < 0 THEN -1 ELSE 1), 0>>

\* JavaScript truthiness of a number: 0 and NaN are falsy
NumTruthy(x) == ~IsNaN(x) /\ x # Zero

\* Math.round(x * 100) / 100: round to hundredths, halves towards +Infinity
MathRound100(x) ==
    IF ~IsFinite(x) THEN x
    ELSE Rat((200 * x[1] + x[2]) \div (2 * x[2]), 100)

\* Number.prototype.toFixed(2): round the magnitude to hundredths, halves up
ToFixed2(x) ==
    IF ~IsFinite(x) THEN x
    ELSE Rat(Sign(x[1]) * ((200 * Abs(x[1]) + x[2]) \div (2 * x[2])), 100)

\* ------------------------------------------------------------------------
\* JavaScript strings as character sequences
\* ------------------------------------------------------------------------

Digits == {"0", "1", "2", "3", "4", "5", "6", "7", "8", "9"}

DigitVal ==
    ("0" :> 0) @@ ("1" :> 1) @@ ("2" :> 2) @@ ("3" :> 3) @@ ("4" :> 4) @@
    ("5" :> 5) @@ ("6" :> 6) @@ ("7" :> 7) @@ ("8" :> 8) @@ ("9" :> 9)

WhiteSpace == {" ", "\t", "\n"}

LowerOf ==
    ("A" :> "a") @@ ("B" :> "b") @@ ("C" :> "c") @@ ("D" :> "d") @@
    ("E" :> "e") @@ ("F" :> "f") @@ ("G" :> "g") @@ ("H" :> "h") @@
    ("I" :> "i") @@ ("J" :> "j") @@ ("K" :> "k") @@ ("L" :> "l") @@
    ("M" :> "m") @@ ("N" :> "n") @@ ("O" :> "o") @@ ("P" :> "p") @@
    ("Q" :> "q") @@ ("R" :> "r") @@ ("S" :> "s") @@ ("T" :> "t") @@
    ("U" :> "u") @@ ("V" :> "v") @@ ("W" :> "w") @@ ("X" :> "x") @@
    ("Y" :> "y") @@ ("Z" :> "z")

\* String.prototype.toLowerCase
toLowerCase(s) ==
    [i \in 1..Len(s) |-> IF s[i] \in DOMAIN LowerOf THEN LowerOf[s[i]] ELSE s[i]]

RECURSIVE trimStart(_)
trimStart(s) ==
    IF s # << >> /\ Head(s) \in WhiteSpace THEN trimStart(Tail(s)) ELSE s

RECURSIVE trimEnd(_)
trimEnd(s) ==
    IF s # << >> /\ s[Len(s)] \in WhiteSpace
    THEN trimEnd(SubSeq(s, 1, Len(s) - 1)) ELSE s

\* String.prototype.trim
trim(s) == trimEnd(trimStart(s))

\* the longest run of decimal digits at the start of s (regex ^\d*)
RECURSIVE DigitRun(_)
DigitRun(s) ==
    IF s # << >> /\ Head(s) \in Digits THEN <<Head(s)>> \o DigitRun(Tail(s))
    ELSE << >>

\* the value of a run of decimal digits (parseInt of a \d+ capture)
RECURSIVE parseInt(_)
parseInt(ds) ==
    IF ds = << >> THEN 0
    ELSE 10 * parseInt(SubSeq(ds, 1, Len(ds) - 1)) + DigitVal[ds[Len(ds)]]

RECURSIVE Pow10(_)
Pow10(k) == IF k = 0 THEN 1 ELSE 10 * Pow10(k - 1)

Drop(s, k) == SubSeq(s, k + 1, Len(s))

\* parseFloat: skips leading white space, then reads the longest prefix of
\* the form [+-] digits [. digits] or [+-] . digits; NaN when there is none.
\* (Exponents and "Infinity" are outside the alphabet of the modelled texts.)
parseFloat(str) ==
    LET t      == trimStart(str)
        hasSgn == t # << >> /\ Head(t) \in {"+", "-"}
        sgn    == IF hasSgn /\ Head(t) = "-" THEN -1 ELSE 1
        u      == IF hasSgn THEN Tail(t) ELSE t
        ip     == DigitRun(u)
        r      == Drop(u, Len(ip))
        hasDot == r # << >> /\ Head(r) = "."
        fp     == IF hasDot THEN DigitRun(Tail(r)) ELSE << >>
    IN  IF ip = << >> /\ fp = << >> THEN NaN
        ELSE Rat(sgn * (parseInt(ip) * Pow10(Len(fp)) + parseInt(fp)), Pow10(Len(fp)))

\* the prefix of white space of s (regex ^\s*)
RECURSIVE SpaceRun(_)
SpaceRun(s) ==
    IF s # << >> /\ Head(s) \in WhiteSpace THEN <<Head(s)>> \o SpaceRun(Tail(s))
    ELSE << >>

\* str.match(/^(\d+)\/(\d+)$/): the captures <<N, D>>, or << >> for no match
fractionMatch(str) ==
    LET n  == DigitRun(str)
        r1 == Drop(str, Len(n))
        d  == IF r1 # << >> THEN DigitRun(Tail(r1)) ELSE << >>
    IN  IF /\ n # << >>
           /\ r1 # << >> /\ Head(r1) = "/"
           /\ d # << >>
           /\ Len(n) + 1 + Len(d) = Len(str)
        THEN <<n, d>> ELSE << >>

\* str.match(/^(\d+)\s+(\d+)\/(\d+)$/): the captures <<W, N, D>>, or << >>
mixedMatch(str) ==
    LET w  == DigitRun(str)
        r1 == Drop(str, Len(w))
        sp == SpaceRun(r1)
        fm == fractionMatch(Drop(r1, Len(sp)))
    IN  IF w # << >> /\ sp # << >> /\ fm # << >>
        THEN <<w, fm[1], fm[2]>> ELSE << >>

\* units.js parseQuantity, for a string argument
parseQuantity(quantityStr) ==
    IF quantityStr = << >> THEN Zero
    ELSE LET str == trim(quantityStr)
             mm  == mixedMatch(str)
             fm  == fractionMatch(str)
         IN  IF mm # << >>
             THEN RAdd(Rat(parseInt(mm[1]), 1), Rat(parseInt(mm[2]), parseInt(mm[3])))
             ELSE IF fm # << >>
             THEN Rat(parseInt(fm[1]), parseInt(fm[2]))
             ELSE IF NumTruthy(parseFloat(str)) THEN parseFloat(str) ELSE Zero

\* normalizeItemName taking one white-space character off each end
normalizeItemName_trimOnce(item) ==
    LET s == toLowerCase(item)
        t == IF s # << >> /\ Head(s) \in WhiteSpace THEN Tail(s) ELSE s
    IN  IF t # << >> /\ t[Len(t)] \in WhiteSpace THEN SubSeq(t, 1, Len(t) - 1) ELSE t

\* units.js normalizeItemName
normalizeItemName(item) == trim(toLowerCase(item))

\* ------------------------------------------------------------------------
\* Bounds and the values the model draws its inputs from
\* ------------------------------------------------------------------------

MaxIngredients == 2

MaxInventory == 1

MaxManual == 1

\* the Inventory tab is not added to beyond this many records
MaxRecords == 2

Weeks == {"2024-01-15", "2024-01-22"}

Days == {"monday", "tuesday"}

RecipeIds == {"r1", "r2"}

Flour == <<"f", "l", "o", "u", "r">>

FlourCap == <<"F", "l", "o", "u", "r">>

FlourSp == <<"f", "l", "o", "u", "r", " ">>

Egg == <<"e", "g", "g">>

\* rows of the Recipes tab (name, cook time, instructions and source are
\* never read by the modelled operations and are left out)
RecipeTabs ==
    { <<[id |-> "r1", servings |-> <<"4">>]>>,
      <<[id |-> "r1", servings |-> <<"4">>], [id |-> "r2", servings |-> <<"2">>]>> }

\* rows of the Ingredients tab, in the order the tab lists them
IngredientRows ==
    << [recipe_id |-> "r1", item |-> Flour, quantity |-> <<"2">>,
       unit |-> "cup", category |-> "pantry"],
      [recipe_id |-> "r2", item |-> FlourCap, quantity |-> <<"1", " ", "1", "/", "2">>,
       unit |-> "g", category |-> "bakery"],
      [recipe_id |-> "r2", item |-> FlourSp, quantity |-> <<"1">>,
       unit |-> "cup", category |-> "pantry"],
      [recipe_id |-> "r1", item |-> Egg, quantity |-> <<"1", "/", "2">>,
       unit |-> "whole", category |-> "dairy"] >>

\* rows of the Inventory tab, in the order the tab lists them (the category
\* column is never read here)
InventoryRows ==
    << [item |-> Flour, status |-> "have", typical_price |-> << >>],
      [item |-> Flour, status |-> "low", typical_price |-> <<"3", ".", "9", "9">>],
      [item |-> Egg, status |-> "out", typical_price |-> << >>] >>

\* what the planner view's recipe selects are set to: <<day, recipe id>>
PlannerChoices ==
    {<<"monday", "r1">>, <<"monday", "r2">>, <<"tuesday", "r2">>}

\* the week the planner and shopping views are showing, and another week
ThisWeekStart == "2024-01-15"

\* the items the user adds to a shopping list by hand
ManualRows ==
    [week_start : Weeks, item : {Egg}, quantity : {Rat(1, 1)}, unit : {"whole"},
     category : {"dairy"}, estimated_price : {<< >>}, checked : {"FALSE"},
     manual : {"TRUE"}]

\* the rows of pool whose positions are in picked, from position i on
RECURSIVE PickRows(_, _, _)
PickRows(pool, picked, i) ==
    IF i > Len(pool) THEN << >>
    ELSE (IF i \in picked THEN <<pool[i]>> ELSE << >>) \o PickRows(pool, picked, i + 1)

\* the tabs that hold at most n of the rows of pool
TabsUpTo(pool, n) ==
    { PickRows(pool, picked, 1) :
        picked \in {p \in SUBSET (1..Len(pool)) : Cardinality(p) <= n} }

\* ------------------------------------------------------------------------
\* State
\* ------------------------------------------------------------------------

VARIABLES
    sheetRecipes,       \* the Recipes tab
    sheetIngredients,   \* the Ingredients tab
    sheetInventory,     \* the Inventory tab
    sheetMealPlan,      \* the MealPlan tab
    sheetShoppingList,  \* the ShoppingList tab
    recipes,            \* Store.recipes
    ingredients,        \* Store.ingredients
    inventory,          \* Store.inventory
    mealPlan,           \* Store.mealPlan
    shoppingList,       \* Store.shoppingList
    sheetPriceHistory,  \* the PriceHistory tab
    priceHistory,       \* Store.priceHistory
    appShown,           \* the app's views are shown (main.js, after loadAll)
    last,               \* the generateShoppingList call that has just
                        \* returned, if that was the last store call: its
                        \* week, outcome and result, and the ShoppingList
                        \* tab and cache before it
    arg,                \* the argument a helper of units.js is called with
    result,             \* the helper's last call: its name, argument, value
    prev,               \* the call whose value is the argument of `result`
    budget,             \* what the budget view last rendered
    race,               \* generateShoppingList calls in flight: where each
                        \* is, what it computed and what it read
    planner,            \* the planner view: the browser's time zone, when
                        \* it was opened, its weekStart and the last step
    firestore,          \* the Firestore backend: who is signed in, the
                        \* wrapper's fields, the accesses the rules granted
                        \* and the last request
    loader              \* an SDK loader: its attempts, its pending timer,
                        \* its promise, and whether the SDK is on the page

catalogSheets == <<sheetRecipes, sheetIngredients, sheetInventory>>

catalogCache == <<recipes, ingredients, inventory>>

planVars == <<sheetMealPlan, mealPlan>>

shopVars == <<sheetShoppingList, shoppingList>>

priceVars == <<sheetPriceHistory, priceHistory>>

storeVars == <<catalogSheets, catalogCache, planVars, shopVars, priceVars, appShown, last>>

unitVars == <<arg, result, prev>>

otherVars == <<unitVars, budget, race, planner, firestore, loader>>

\* everything outside the store but the named part stays as it is
UnchangedExcept(part) ==
    /\ IF part = "units" THEN TRUE ELSE UNCHANGED unitVars
    /\ IF part = "budget" THEN TRUE ELSE UNCHANGED budget
    /\ IF part = "race" THEN TRUE ELSE UNCHANGED race
    /\ IF part = "planner" THEN TRUE ELSE UNCHANGED planner
    /\ IF part = "firestore" THEN TRUE ELSE UNCHANGED firestore
    /\ IF part = "loader" THEN TRUE ELSE UNCHANGED loader

vars == <<storeVars, otherVars>>

\* ------------------------------------------------------------------------
\* SheetsAPI (src/js/sheets.js)
\* ------------------------------------------------------------------------

\* readAsObjects: the data rows of the tab as objects
readAsObjects(tab) == tab

\* writeObjects: returns without touching the tab when there is nothing to
\* write; otherwise clears the tab and writes the header and the rows
writeObjects(tab, objects) ==
    IF Len(objects) = 0 THEN tab ELSE objects

\* appendObjects: returns early for no objects; otherwise the rows go to a
\* tab without data through writeObjects, and after the last row else
appendObjects(tab, objects) ==
    IF Len(objects) = 0 THEN tab
    ELSE IF Len(tab) = 0 THEN writeObjects(tab, objects)
    ELSE tab \o objects

\* ------------------------------------------------------------------------
\* Store (src/js/store.js): queries on the cached collections
\* ------------------------------------------------------------------------

\* Array.prototype.filter
Filter(seq, Keep(_)) == SelectSeq(seq, Keep)

\* Array.prototype.findIndex, 1-based; 0 when no element matches
FindIndex(seq, Match(_)) ==
    LET hits == {i \in 1..Len(seq) : Match(seq[i])}
    IN  IF hits = {} THEN 0 ELSE CHOOSE i \in hits : \A j \in hits : i <= j

\* getRecipe(id), as the index of the recipe in the cache (0: undefined)
getRecipe(id) ==
    LET Match(r) == r.id = id IN FindIndex(recipes, Match)

getRecipeIngredients(recipeId) ==
    LET Keep(i) == i.recipe_id = recipeId IN Filter(ingredients, Keep)

\* getInventoryItem(item), as the index of the record in the cache
getInventoryItem(item) ==
    LET Match(i) == toLowerCase(i.item) = toLowerCase(item)
    IN  FindIndex(inventory, Match)

getMealPlanForWeek(weekStart) ==
    LET Keep(m) == m.week_start = weekStart IN Filter(mealPlan, Keep)

getShoppingListForWeek(weekStart) ==
    LET Keep(x) == x.week_start = weekStart IN Filter(shoppingList, Keep)

\* ------------------------------------------------------------------------
\* Store.generateShoppingList: aggregation, filter and pricing
\* ------------------------------------------------------------------------

\* the household's serving requirement, 2.5
TargetServings == Rat(5, 2)

\* mutant: the fallback to 4 servings is missing
Servings_noDefault(recipe) == parseFloat(recipe.servings)

\* const servings = parseFloat(recipe.servings) || 4
Servings(recipe) ==
    IF NumTruthy(parseFloat(recipe.servings)) THEN parseFloat(recipe.servings)
    ELSE Rat(4, 1)

\* mutant: the target of 2.5 servings is left out of the multiplier
Multiplier_noTarget(recipe) == RDiv(Rat(1, 1), Servings(recipe))

\* const multiplier = 2.5 / servings
Multiplier(recipe) == RDiv(TargetServings, Servings(recipe))

\* const quantity = parseFloat(ingredient.quantity) || 0
Quantity(ingredient) ==
    IF NumTruthy(parseFloat(ingredient.quantity)) THEN parseFloat(ingredient.quantity)
    ELSE Zero

ScaledQuantity(ingredient, multiplier) == RMul(Quantity(ingredient), multiplier)

\* the key under which an ingredient is aggregated
AggregateKey(ingredient) == toLowerCase(ingredient.item)

\* one pass of the inner loop body: `aggregated` is the object's entries in
\* insertion order, each with the key it is stored under
AddToAggregated(aggregated, ingredient, multiplier) ==
    LET key       == AggregateKey(ingredient)
        Match(a)  == a.key = key
        k         == FindIndex(aggregated, Match)
        scaled    == ScaledQuantity(ingredient, multiplier)
    IN  IF k = 0
        THEN Append(aggregated,
                    [key |-> key, item |-> ingredient.item,
                     quantity |-> RAdd(Zero, scaled),
                     unit |-> ingredient.unit, category |-> ingredient.category])
        ELSE [aggregated EXCEPT ![k].quantity = RAdd(@, scaled)]

RECURSIVE AggregateIngredients(_, _, _)
AggregateIngredients(aggregated, ings, multiplier) ==
    IF ings = << >> THEN aggregated
    ELSE AggregateIngredients(AddToAggregated(aggregated, Head(ings), multiplier),
                              Tail(ings), multiplier)

\* mutant: the loop ends at the first entry whose recipe does not resolve
RECURSIVE AggregateMeals_break(_, _)
AggregateMeals_break(aggregated, weekMeals) ==
    IF weekMeals = << >> THEN aggregated
    ELSE LET meal == Head(weekMeals)
             r    == getRecipe(meal.recipe_id)
         IN  IF r = 0 THEN aggregated
             ELSE AggregateMeals_break(
                      AggregateIngredients(aggregated,
                                           getRecipeIngredients(meal.recipe_id),
                                           Multiplier(recipes[r])),
                      Tail(weekMeals))

\* the outer loop: entries whose recipe does not resolve are skipped
RECURSIVE AggregateMeals(_, _)
AggregateMeals(aggregated, weekMeals) ==
    IF weekMeals = << >> THEN aggregated
    ELSE LET meal == Head(weekMeals)
             r    == getRecipe(meal.recipe_id)
         IN  IF r = 0 THEN AggregateMeals(aggregated, Tail(weekMeals))
             ELSE AggregateMeals(
                      AggregateIngredients(aggregated,
                                           getRecipeIngredients(meal.recipe_id),
                                           Multiplier(recipes[r])),
                      Tail(weekMeals))

Aggregated(weekStart) == AggregateMeals(<< >>, getMealPlanForWeek(weekStart))

\* mutant: the inventory is not consulted, every aggregated item is included
Included_all(item) == TRUE

\* the inclusion test of the filter loop
Included(item) ==
    LET k == getInventoryItem(item.item)
    IN  k = 0 \/ inventory[k].status = "low" \/ inventory[k].status = "out"

\* inventoryItem?.typical_price || ''
TypicalPrice(item) ==
    LET k == getInventoryItem(item.item)
    IN  IF k = 0 THEN << >> ELSE inventory[k].typical_price

\* mutant: an item without a typical price is estimated at 0
EstimatedPrice_zero(item) ==
    IF TypicalPrice(item) = << >> THEN Zero
    ELSE ToFixed2(RMul(parseFloat(TypicalPrice(item)), item.quantity))

\* typical_price ? (parseFloat(typical_price) * item.quantity).toFixed(2) : ''
EstimatedPrice(item) ==
    IF TypicalPrice(item) = << >> THEN << >>
    ELSE ToFixed2(RMul(parseFloat(TypicalPrice(item)), item.quantity))

\* mutant: a regenerated item takes over the tick of the row it replaces
ShoppingItem_keepChecked(weekStart, item) ==
    LET Ticked(x) == /\ x.week_start = weekStart /\ x.item = item.item
                     /\ x.checked = "TRUE"
    IN  [week_start |-> weekStart,
         item |-> item.item,
         quantity |-> MathRound100(item.quantity),
         unit |-> item.unit,
         category |-> item.category,
         estimated_price |-> EstimatedPrice(item),
         checked |-> IF FindIndex(sheetShoppingList, Ticked) # 0 THEN "TRUE" ELSE "FALSE",
         manual |-> "FALSE"]

ShoppingItem(weekStart, item) ==
    [week_start |-> weekStart,
     item |-> item.item,
     quantity |-> MathRound100(item.quantity),
     unit |-> item.unit,
     category |-> item.category,
     estimated_price |-> EstimatedPrice(item),
     checked |-> "FALSE",
     manual |-> "FALSE"]

RECURSIVE FilterAndPrice(_, _)
FilterAndPrice(weekStart, aggregated) ==
    IF aggregated = << >> THEN << >>
    ELSE IF Included(Head(aggregated))
    THEN <<ShoppingItem(weekStart, Head(aggregated))>>
         \o FilterAndPrice(weekStart, Tail(aggregated))
    ELSE FilterAndPrice(weekStart, Tail(aggregated))

ShoppingItems(weekStart) == FilterAndPrice(weekStart, Aggregated(weekStart))

\* mutant: the check for an empty week is missing
NoMealsPlanned_never(weekMeals) == FALSE

\* if (weekMeals.length === 0) throw new Error('No meals planned for this week')
NoMealsPlanned(weekMeals) == Len(weekMeals) = 0

OtherWeeks(items, weekStart) ==
    LET Keep(x) == x.week_start # weekStart IN Filter(items, Keep)

ThisWeek(items, weekStart) ==
    LET Keep(x) == x.week_start = weekStart IN Filter(items, Keep)

\* ------------------------------------------------------------------------
\* Initial state and the store's operations
\* ------------------------------------------------------------------------

\* the last store call was not generateShoppingList
NoCall == [op |-> "none", week |-> "", outcome |-> "none", returned |-> << >>,
           preSheet |-> << >>, preCache |-> << >>]

\* a call of generateShoppingList
GenerateCall(week, outcome, returned) ==
    [op |-> "generateShoppingList", week |-> week, outcome |-> outcome,
     returned |-> returned,
     preSheet |-> sheetShoppingList, preCache |-> shoppingList]

\* no helper has been called
NoArg == [type |-> "none", value |-> << >>]

NoResult == [fn |-> "none", arg |-> NoArg, value |-> NoArg]

UnitsIdle ==
    /\ arg = NoArg
    /\ result = NoResult
    /\ prev = NoResult

\* the budget view has not been rendered
NoBudget == [weekStart |-> 0, zone |-> "none", lastWeekActual |-> Zero]

\* the callers of generateShoppingList that can be in flight together
Callers == {"A", "B"}

\* a generateShoppingList call that has not been made
NoGenerate == [pc |-> "idle", week |-> "", shoppingItems |-> << >>, newList |-> << >>]

\* no generateShoppingList call is in flight
NoRace == [base |-> << >>, calls |-> [c \in Callers |-> NoGenerate]]

\* the planner view has not been opened
NoPlanner ==
    [zone |-> [name |-> "none", before |-> 0, after |-> 0, change |-> 0],
     now |-> 0, weekStart |-> 0, from |-> 0, step |-> "closed"]

\* no request has been made to Firestore
NoRequest ==
    [via |-> "none", kind |-> "none", auth |-> "none", owner |-> "none",
     allowed |-> FALSE]

\* new FirebaseAuth(), new FirestoreDB(): nobody is signed in, db and userId
\* are null
NoFirestore ==
    [user |-> "none", db |-> FALSE, userId |-> "none", granted |-> {},
     last |-> NoRequest]

\* no loader has been called and the SDK's script has not run
NoLoader ==
    [name |-> "none", sdk |-> FALSE, attempts |-> 0, polls |-> 0,
     pc |-> "idle", sawSdk |-> FALSE, outcome |-> "pending", error |-> "none",
     settles |-> 0]

\* everything outside the store but the named part is not in use
IdleExcept(part) ==
    /\ IF part = "units" THEN TRUE ELSE UnitsIdle
    /\ IF part = "budget" THEN TRUE ELSE budget = NoBudget
    /\ IF part = "race" THEN TRUE ELSE race = NoRace
    /\ IF part = "planner" THEN TRUE ELSE planner = NoPlanner
    /\ IF part = "firestore" THEN TRUE ELSE firestore = NoFirestore
    /\ IF part = "loader" THEN TRUE ELSE loader = NoLoader

\* nothing outside the store is in use
OthersIdle == IdleExcept("store")

\* new Store(): every cached collection is empty.  The spreadsheet already
\* holds a catalogue of recipes, ingredients and inventory; its MealPlan and
\* ShoppingList tabs have no data rows yet.
Init ==
    /\ sheetRecipes \in RecipeTabs
    /\ sheetIngredients \in TabsUpTo(IngredientRows, MaxIngredients)
    /\ sheetInventory \in TabsUpTo(InventoryRows, MaxInventory)
    /\ sheetMealPlan = << >>
    /\ sheetShoppingList = << >>
    /\ recipes = << >>
    /\ ingredients = << >>
    /\ inventory = << >>
    /\ mealPlan = << >>
    /\ shoppingList = << >>
    /\ sheetPriceHistory = << >>
    /\ priceHistory = << >>
    /\ appShown = FALSE
    /\ last = NoCall
    /\ OthersIdle

\* the auth-success handler of main.js: Store.loadAll, then the app is shown
LoadAll ==
    /\ appShown' = TRUE
    /\ recipes' = readAsObjects(sheetRecipes)
    /\ ingredients' = readAsObjects(sheetIngredients)
    /\ inventory' = readAsObjects(sheetInventory)
    /\ mealPlan' = readAsObjects(sheetMealPlan)
    /\ shoppingList' = readAsObjects(sheetShoppingList)
    /\ last' = NoCall
    /\ priceHistory' = readAsObjects(sheetPriceHistory)
    /\ UNCHANGED <<catalogSheets, sheetMealPlan, sheetShoppingList, sheetPriceHistory, otherVars>>

\* Store.addMealToPlan
AddMealToPlan(meal) ==
    /\ sheetMealPlan' = appendObjects(sheetMealPlan, <<meal>>)
    /\ mealPlan' = readAsObjects(sheetMealPlan')

\* mutant: the lookup of the day's entry is missing, every call adds a row
UpdateMealInPlan_alwaysAdd(weekStart, day, recipeId) ==
    /\ appShown
    /\ AddMealToPlan([week_start |-> weekStart, day |-> day, recipe_id |-> recipeId])
    /\ last' = NoCall
    /\ UNCHANGED <<catalogSheets, catalogCache, shopVars, appShown, priceVars, otherVars>>

\* Store.updateMealInPlan, as the planner view calls it
UpdateMealInPlan(weekStart, day, recipeId) ==
    LET meals    == readAsObjects(sheetMealPlan)
        Match(m) == m.week_start = weekStart /\ m.day = day
        index    == FindIndex(meals, Match)
    IN  /\ appShown
        /\ IF index = 0
           THEN AddMealToPlan([week_start |-> weekStart, day |-> day,
                               recipe_id |-> recipeId])
           ELSE /\ sheetMealPlan' =
                       writeObjects(sheetMealPlan,
                                    [meals EXCEPT ![index].recipe_id = recipeId])
                /\ mealPlan' = readAsObjects(sheetMealPlan')
        /\ last' = NoCall
        /\ UNCHANGED <<catalogSheets, catalogCache, shopVars, appShown, priceVars, otherVars>>

\* the MealPlan tab after Store.clearMealFromPlan(weekStart, day)
clearMealFromPlan(tab, weekStart, day) ==
    LET Keep(m) == ~(m.week_start = weekStart /\ m.day = day)
    IN  writeObjects(tab, Filter(readAsObjects(tab), Keep))

\* Store.clearMealFromPlan
ClearMealFromPlan(weekStart, day) ==
    /\ appShown
    /\ sheetMealPlan' = clearMealFromPlan(sheetMealPlan, weekStart, day)
    /\ mealPlan' = readAsObjects(sheetMealPlan')
    /\ last' = NoCall
    /\ UNCHANGED <<catalogSheets, catalogCache, shopVars, appShown, priceVars, otherVars>>

\* the MealPlan tab after Store.clearWeek(weekStart)
clearWeek(tab, weekStart) ==
    LET Keep(m) == m.week_start # weekStart
    IN  writeObjects(tab, Filter(readAsObjects(tab), Keep))

\* a clearWeek that also throws the week's shopping list away
ClearWeek_dropList(weekStart) ==
    /\ appShown
    /\ sheetMealPlan' = clearWeek(sheetMealPlan, weekStart)
    /\ mealPlan' = readAsObjects(sheetMealPlan')
    /\ sheetShoppingList' = << >>
    /\ shoppingList' = << >>
    /\ last' = NoCall
    /\ UNCHANGED <<catalogSheets, catalogCache, appShown, priceVars, otherVars>>

\* Store.clearWeek
ClearWeek(weekStart) ==
    /\ appShown
    /\ sheetMealPlan' = clearWeek(sheetMealPlan, weekStart)
    /\ mealPlan' = readAsObjects(sheetMealPlan')
    /\ last' = NoCall
    /\ UNCHANGED <<catalogSheets, catalogCache, shopVars, appShown, priceVars, otherVars>>

\* Store.addManualShoppingItem
AddManualShoppingItem(item) ==
    LET IsManual(x) == x.manual = "TRUE"
    IN  /\ appShown
        /\ Len(Filter(sheetShoppingList, IsManual)) < MaxManual
        /\ sheetShoppingList' =
               appendObjects(sheetShoppingList, <<[item EXCEPT !.manual = "TRUE"]>>)
        /\ shoppingList' = readAsObjects(sheetShoppingList')
        /\ last' = NoCall
        /\ UNCHANGED <<catalogSheets, catalogCache, planVars, appShown, priceVars, otherVars>>

\* Store.generateShoppingList
GenerateShoppingList(weekStart) ==
    LET weekMeals        == getMealPlanForWeek(weekStart)
        shoppingItems    == ShoppingItems(weekStart)
        allShoppingItems == readAsObjects(sheetShoppingList)
        otherWeeks       == OtherWeeks(allShoppingItems, weekStart)
        newList          == otherWeeks \o shoppingItems
    IN  /\ appShown
        /\ IF NoMealsPlanned(weekMeals)
           THEN \* throw new Error('No meals planned for this week')
                /\ last' = GenerateCall(weekStart, "NoMealsPlanned", << >>)
                /\ UNCHANGED <<catalogSheets, catalogCache, planVars, shopVars, appShown, priceVars, otherVars>>
           ELSE /\ sheetShoppingList' = writeObjects(sheetShoppingList, newList)
                /\ shoppingList' = readAsObjects(sheetShoppingList')
                /\ last' = GenerateCall(weekStart, "ok", shoppingItems)
                /\ UNCHANGED <<catalogSheets, catalogCache, planVars, appShown, priceVars, otherVars>>

\* Store.updateShoppingItem, as the shopping view's checkboxes call it: the
\* box of a listed row is toggled, and the first row of that week and item
\* name takes the new value
UpdateShoppingItem(weekStart, item, checked) ==
    LET items    == readAsObjects(sheetShoppingList)
        Match(x) == x.week_start = weekStart /\ x.item = item
        index    == FindIndex(items, Match)
    IN  /\ appShown
        /\ IF index # 0
           THEN /\ sheetShoppingList' =
                       writeObjects(sheetShoppingList,
                                    [items EXCEPT ![index].checked = checked])
                /\ shoppingList' = readAsObjects(sheetShoppingList')
           ELSE UNCHANGED shopVars
        /\ last' = NoCall
        /\ UNCHANGED <<catalogSheets, catalogCache, planVars, appShown, priceVars, otherVars>>

\* a click on the checkbox of a row the shopping view lists
ToggleCheckbox(weekStart) ==
    \E k \in 1..Len(getShoppingListForWeek(weekStart)) :
        LET row == getShoppingListForWeek(weekStart)[k]
        IN  UpdateShoppingItem(weekStart, row.item,
                               IF row.checked = "TRUE" THEN "FALSE" ELSE "TRUE")

Next ==
    \/ LoadAll
    \/ \E c \in PlannerChoices : UpdateMealInPlan(ThisWeekStart, c[1], c[2])
    \/ \E d \in Days : ClearMealFromPlan(ThisWeekStart, d)
    \/ ClearWeek(ThisWeekStart)
    \/ \E item \in ManualRows : AddManualShoppingItem(item)
    \/ \E w \in Weeks : GenerateShoppingList(w)

Spec == Init /\ [][Next]_vars

\* ------------------------------------------------------------------------
\* Shopping: the planner's recipe selects and the shopping view, with its
\* checkboxes, its add-item form and its regenerate button
\* ------------------------------------------------------------------------

NextShopping ==
    \/ LoadAll
    \/ \E c \in PlannerChoices : UpdateMealInPlan(ThisWeekStart, c[1], c[2])
    \/ \E item \in ManualRows : AddManualShoppingItem(item)
    \/ ToggleCheckbox(ThisWeekStart)
    \/ GenerateShoppingList(ThisWeekStart)

SpecShopping == Init /\ [][NextShopping]_vars

\* ------------------------------------------------------------------------
\* Planner: the planner view on any of the weeks it can be moved to
\* ------------------------------------------------------------------------

NextPlanner ==
    \/ LoadAll
    \/ \E w \in Weeks : \E c \in PlannerChoices : UpdateMealInPlan(w, c[1], c[2])
    \/ \E w \in Weeks : \E d \in Days : ClearMealFromPlan(w, d)
    \/ \E w \in Weeks : ClearWeek(w)

SpecPlanner == Init /\ [][NextPlanner]_vars

\* ------------------------------------------------------------------------
\* Recipes: deleting a recipe and saving a recipe's ingredients
\* ------------------------------------------------------------------------

\* a call of deleteRecipe or saveRecipeIngredients: its arguments and outcome,
\* and the Recipes and Ingredients tabs before it
RecipeCall(op, id, newIngredients, outcome) ==
    [op |-> op, id |-> id, newIngredients |-> newIngredients, outcome |-> outcome,
     preRecipes |-> sheetRecipes, preIngredients |-> sheetIngredients]

\* SheetsAPI.deleteRow and updateRow throw when no row has the value in the
\* match column
RowNotFound(tab, matchColumn, matchValue) ==
    \A k \in 1..Len(tab) : tab[k][matchColumn] # matchValue

\* SheetsAPI.deleteRow: the tab after the call, for a tab that has a row to
\* delete (the rows that do not match are written back with writeObjects)
deleteRow(tab, matchColumn, matchValue) ==
    LET Keep(obj) == obj[matchColumn] # matchValue
    IN  writeObjects(tab, Filter(readAsObjects(tab), Keep))

\* the Ingredients tab after Store.deleteIngredient(recipeId, item)
deleteIngredient(tab, recipeId, item) ==
    LET Keep(i) == ~(i.recipe_id = recipeId /\ i.item = item)
    IN  writeObjects(tab, Filter(readAsObjects(tab), Keep))

\* the loop of deleteRecipe over the recipe's cached ingredients
RECURSIVE DeleteIngredients(_, _)
DeleteIngredients(tab, recipeIngredients) ==
    IF recipeIngredients = << >> THEN tab
    ELSE DeleteIngredients(
             deleteIngredient(tab, Head(recipeIngredients).recipe_id,
                              Head(recipeIngredients).item),
             Tail(recipeIngredients))

\* Store.deleteRecipe
DeleteRecipe(id) ==
    /\ appShown
    /\ IF RowNotFound(sheetRecipes, "id", id)
       THEN \* deleteRow throws: Row with id=... not found
            /\ last' = RecipeCall("deleteRecipe", id, << >>, "RowNotFound")
            /\ UNCHANGED <<catalogSheets, catalogCache>>
       ELSE /\ sheetRecipes' = deleteRow(sheetRecipes, "id", id)
            /\ sheetIngredients' =
                   DeleteIngredients(sheetIngredients, getRecipeIngredients(id))
            /\ recipes' = readAsObjects(sheetRecipes')
            /\ ingredients' =
                   IF getRecipeIngredients(id) = << >> THEN ingredients
                   ELSE readAsObjects(sheetIngredients')
            /\ last' = RecipeCall("deleteRecipe", id, << >>, "ok")
            /\ UNCHANGED <<sheetInventory, inventory>>
    /\ UNCHANGED <<planVars, shopVars, appShown, priceVars, otherVars>>

\* Store.saveRecipeIngredients
SaveRecipeIngredients(recipeId, newIngredients) ==
    LET allIngredients    == readAsObjects(sheetIngredients)
        Keep(i)           == i.recipe_id # recipeId
        otherIngredients  == Filter(allIngredients, Keep)
        ingredientsToSave == otherIngredients \o newIngredients
    IN  /\ appShown
        /\ sheetIngredients' = writeObjects(sheetIngredients, ingredientsToSave)
        /\ ingredients' = readAsObjects(sheetIngredients')
        /\ last' = RecipeCall("saveRecipeIngredients", recipeId, newIngredients, "ok")
        /\ UNCHANGED <<sheetRecipes, sheetInventory, recipes, inventory,
                       planVars, shopVars, appShown, priceVars, otherVars>>

\* the ingredient lists a recipe is saved with
NewIngredients(recipeId) ==
    LET egg   == [recipe_id |-> recipeId, item |-> Egg, quantity |-> <<"3">>,
                  unit |-> "whole", category |-> "dairy"]
        flour == [recipe_id |-> recipeId, item |-> Flour, quantity |-> <<"2">>,
                  unit |-> "cup", category |-> "pantry"]
    IN  { << >>, <<egg>>, <<flour, egg>> }

NextRecipes ==
    \/ LoadAll
    \/ \E id \in RecipeIds : DeleteRecipe(id)
    \/ \E id \in RecipeIds : \E new \in NewIngredients(id) :
           SaveRecipeIngredients(id, new)

SpecRecipes == Init /\ [][NextRecipes]_vars

\* ------------------------------------------------------------------------
\* Inventory: the inventory view's add form and status selects, and
\* deleteInventoryItem
\* ------------------------------------------------------------------------

\* SheetsAPI.updateRow: the first row with the value in the match column
\* takes the updates (the call throws when there is none)
updateRow(tab, matchColumn, matchValue, updates) ==
    LET objects  == readAsObjects(tab)
        rowIndex == CHOOSE i \in 1..Len(objects) :
                        /\ objects[i][matchColumn] = matchValue
                        /\ \A j \in 1..(i - 1) : objects[j][matchColumn] # matchValue
        updatedObject == [key \in DOMAIN objects[rowIndex] |->
                             IF key \in DOMAIN updates THEN updates[key]
                             ELSE objects[rowIndex][key]]
    IN  [tab EXCEPT ![rowIndex] = updatedObject]

\* Store.addInventoryItem
AddInventoryItem(item) ==
    /\ appShown
    /\ Len(sheetInventory) < MaxRecords
    /\ sheetInventory' = appendObjects(sheetInventory, <<item>>)
    /\ inventory' = readAsObjects(sheetInventory')
    /\ last' = NoCall
    /\ UNCHANGED <<sheetRecipes, sheetIngredients, recipes, ingredients,
                   planVars, shopVars, appShown, priceVars, otherVars>>

\* InventoryView.handleAddItem: the name typed into the form is trimmed and
\* lowercased, then the record is added
HandleAddItem(name, status, price) ==
    AddInventoryItem([item |-> toLowerCase(trim(name)), status |-> status,
                      typical_price |-> price])

\* Store.updateInventoryItem
UpdateInventoryItem(itemName, updates) ==
    /\ appShown
    /\ IF RowNotFound(sheetInventory, "item", itemName)
       THEN UNCHANGED <<sheetInventory, inventory>>
       ELSE /\ sheetInventory' = updateRow(sheetInventory, "item", itemName, updates)
            /\ inventory' = readAsObjects(sheetInventory')
    /\ last' = NoCall
    /\ UNCHANGED <<sheetRecipes, sheetIngredients, recipes, ingredients,
                   planVars, shopVars, appShown, priceVars, otherVars>>

\* Store.deleteInventoryItem
DeleteInventoryItem(itemName) ==
    /\ appShown
    /\ IF RowNotFound(sheetInventory, "item", itemName)
       THEN UNCHANGED <<sheetInventory, inventory>>
       ELSE /\ sheetInventory' = deleteRow(sheetInventory, "item", itemName)
            /\ inventory' = readAsObjects(sheetInventory')
    /\ last' = NoCall
    /\ UNCHANGED <<sheetRecipes, sheetIngredients, recipes, ingredients,
                   planVars, shopVars, appShown, priceVars, otherVars>>

\* names typed into the add form
TypedNames == {Flour, FlourCap, FlourSp, Egg}

Statuses == {"have", "low", "out"}

NextInventory ==
    \/ LoadAll
    \/ \E name \in TypedNames : \E status \in Statuses :
           HandleAddItem(name, status, << >>)
    \/ \E name \in {Flour, Egg} : \E status \in Statuses :
           UpdateInventoryItem(name, [status |-> status])
    \/ \E name \in {Flour, Egg} : DeleteInventoryItem(name)

SpecInventory == Init /\ [][NextInventory]_vars

\* ------------------------------------------------------------------------
\* Prices: logging the prices paid, next to every other store operation
\* ------------------------------------------------------------------------

\* the PriceHistory tab is not added to beyond this many entries
MaxPriceEntries == 2

\* new Date().toISOString().split('T')[0] on the days prices are logged
Dates == {"2024-01-20", "2024-01-27"}

\* the prices argument of logPrices: no price, one price without a store,
\* two prices
PriceLists ==
    { << >>,
      <<[item |-> Egg, price |-> "2.99"]>>,
      <<[item |-> Flour, price |-> "3.49", store |-> "Aldi"],
        [item |-> Egg, price |-> "2.99"]>> }

\* rows the PriceHistory tab holds before the session
PriceHistoryRows ==
    << [date |-> "2024-01-13", item |-> Flour, price |-> "3.29", store |-> "Aldi"] >>

\* p.store || ''
StoreOf(p) ==
    IF "store" \in DOMAIN p /\ p.store # "" THEN p.store ELSE ""

\* prices.map(p => ({ date: today, item: p.item, price: p.price,
\*                    store: p.store || '' }))
PriceEntries(prices, today) ==
    [i \in 1..Len(prices) |->
        [date |-> today, item |-> prices[i].item, price |-> prices[i].price,
         store |-> StoreOf(prices[i])]]

\* logPrices with the tab rewritten from the new entries
LogPrices_overwrite(weekStart, prices, today) ==
    /\ appShown
    /\ Len(sheetPriceHistory) + Len(prices) <= MaxPriceEntries
    /\ sheetPriceHistory' = writeObjects(sheetPriceHistory, PriceEntries(prices, today))
    /\ priceHistory' = readAsObjects(sheetPriceHistory')
    /\ last' = NoCall
    /\ UNCHANGED <<catalogSheets, catalogCache, planVars, shopVars, appShown, otherVars>>

\* Store.logPrices
LogPrices(weekStart, prices, today) ==
    /\ appShown
    /\ Len(sheetPriceHistory) + Len(prices) <= MaxPriceEntries
    /\ sheetPriceHistory' = appendObjects(sheetPriceHistory, PriceEntries(prices, today))
    /\ priceHistory' = readAsObjects(sheetPriceHistory')
    /\ last' = NoCall
    /\ UNCHANGED <<catalogSheets, catalogCache, planVars, shopVars, appShown, otherVars>>

InitPrices ==
    /\ sheetRecipes = <<[id |-> "r1", servings |-> <<"4">>]>>
    /\ sheetIngredients = <<IngredientRows[1]>>
    /\ sheetInventory = <<InventoryRows[3]>>
    /\ sheetMealPlan = << >>
    /\ sheetShoppingList = << >>
    /\ sheetPriceHistory \in TabsUpTo(PriceHistoryRows, 1)
    /\ recipes = << >>
    /\ ingredients = << >>
    /\ inventory = << >>
    /\ mealPlan = << >>
    /\ shoppingList = << >>
    /\ priceHistory = << >>
    /\ appShown = FALSE
    /\ last = NoCall
    /\ OthersIdle

\* every operation of the store that writes a tab
NextPrices ==
    \/ LoadAll
    \/ UpdateMealInPlan(ThisWeekStart, "monday", "r1")
    \/ ClearMealFromPlan(ThisWeekStart, "monday")
    \/ ClearWeek(ThisWeekStart)
    \/ \E item \in ManualRows : item.week_start = ThisWeekStart /\ AddManualShoppingItem(item)
    \/ ToggleCheckbox(ThisWeekStart)
    \/ GenerateShoppingList(ThisWeekStart)
    \/ DeleteRecipe("r1")
    \/ \E new \in NewIngredients("r1") : SaveRecipeIngredients("r1", new)
    \/ HandleAddItem(Flour, "have", << >>)
    \/ UpdateInventoryItem(Egg, [status |-> "low"])
    \/ DeleteInventoryItem(Egg)
    \/ \E prices \in PriceLists : \E today \in Dates :
           LogPrices(ThisWeekStart, prices, today)

SpecPrices == InitPrices /\ [][NextPrices]_vars

\* ------------------------------------------------------------------------
\* Every operation of the store that writes a tab, side by side
\* ------------------------------------------------------------------------

\* sheets.generateId('r'): an id that no recipe has while AddRecipe runs
NewRecipeId == "r_new"

\* Store.addRecipe
AddRecipe(recipe) ==
    /\ appShown
    /\ RowNotFound(sheetRecipes, "id", NewRecipeId)
    /\ sheetRecipes' =
           appendObjects(sheetRecipes,
                         <<[id |-> NewRecipeId, servings |-> recipe.servings]>>)
    /\ recipes' = readAsObjects(sheetRecipes')
    /\ last' = NoCall
    /\ UNCHANGED <<sheetIngredients, sheetInventory, ingredients, inventory,
                   planVars, shopVars, appShown, priceVars, otherVars>>

\* Store.updateRecipe (updateRow throws when no recipe has the id)
UpdateRecipe(id, updates) ==
    /\ appShown
    /\ IF RowNotFound(sheetRecipes, "id", id)
       THEN UNCHANGED <<sheetRecipes, recipes>>
       ELSE /\ sheetRecipes' = updateRow(sheetRecipes, "id", id, updates)
            /\ recipes' = readAsObjects(sheetRecipes')
    /\ last' = NoCall
    /\ UNCHANGED <<sheetIngredients, sheetInventory, ingredients, inventory,
                   planVars, shopVars, appShown, priceVars, otherVars>>

\* Store.addIngredient
AddIngredient(ingredient) ==
    /\ appShown
    /\ Len(sheetIngredients) < MaxRecords
    /\ sheetIngredients' = appendObjects(sheetIngredients, <<ingredient>>)
    /\ ingredients' = readAsObjects(sheetIngredients')
    /\ last' = NoCall
    /\ UNCHANGED <<sheetRecipes, sheetInventory, recipes, inventory,
                   planVars, shopVars, appShown, priceVars, otherVars>>

\* Store.updateIngredient (throws 'Ingredient not found' when there is none)
UpdateIngredient(recipeId, item, updates) ==
    LET all      == readAsObjects(sheetIngredients)
        Match(i) == i.recipe_id = recipeId /\ i.item = item
        index    == FindIndex(all, Match)
    IN  /\ appShown
        /\ IF index = 0
           THEN UNCHANGED <<sheetIngredients, ingredients>>
           ELSE /\ sheetIngredients' =
                       writeObjects(sheetIngredients,
                           [all EXCEPT ![index] =
                               [key \in DOMAIN all[index] |->
                                   IF key \in DOMAIN updates THEN updates[key]
                                   ELSE all[index][key]]])
                /\ ingredients' = readAsObjects(sheetIngredients')
        /\ last' = NoCall
        /\ UNCHANGED <<sheetRecipes, sheetInventory, recipes, inventory,
                       planVars, shopVars, appShown, priceVars, otherVars>>

\* Store.deleteIngredient
DeleteIngredient(recipeId, item) ==
    /\ appShown
    /\ sheetIngredients' = deleteIngredient(sheetIngredients, recipeId, item)
    /\ ingredients' = readAsObjects(sheetIngredients')
    /\ last' = NoCall
    /\ UNCHANGED <<sheetRecipes, sheetInventory, recipes, inventory,
                   planVars, shopVars, appShown, priceVars, otherVars>>

\* one recipe taking flour and egg, flour in stock and egg out of stock,
\* one meal planned for the week after, nothing logged
InitFrame ==
    /\ sheetRecipes = <<[id |-> "r1", servings |-> <<"4">>]>>
    /\ sheetIngredients = <<IngredientRows[1], IngredientRows[4]>>
    /\ sheetInventory = <<InventoryRows[1], InventoryRows[3]>>
    /\ sheetMealPlan =
           <<[week_start |-> "2024-01-22", day |-> "monday", recipe_id |-> "r1"]>>
    /\ sheetShoppingList = << >>
    /\ sheetPriceHistory = << >>
    /\ recipes = << >>
    /\ ingredients = << >>
    /\ inventory = << >>
    /\ mealPlan = << >>
    /\ shoppingList = << >>
    /\ priceHistory = << >>
    /\ appShown = FALSE
    /\ last = NoCall
    /\ OthersIdle

\* the recipe has no ingredient of that name yet
NotInRecipe(recipeId, item) ==
    \A k \in 1..Len(sheetIngredients) :
        ~(sheetIngredients[k].recipe_id = recipeId /\ sheetIngredients[k].item = item)

\* the operations on recipes, ingredients, inventory, meal plan and prices
ChangesData ==
    \/ AddRecipe([servings |-> <<"2">>])
    \/ UpdateRecipe("r1", [servings |-> <<"2">>])
    \/ DeleteRecipe("r1")
    \/ NotInRecipe("r1", Flour) /\ AddIngredient(IngredientRows[1])
    \/ UpdateIngredient("r1", Flour, [quantity |-> <<"1">>])
    \/ DeleteIngredient("r1", Flour)
    \/ SaveRecipeIngredients("r1", <<IngredientRows[4]>>)
    \/ RowNotFound(sheetInventory, "item", Egg) /\ HandleAddItem(Egg, "have", << >>)
    \/ UpdateInventoryItem(Egg, [status |-> "have"])
    \/ DeleteInventoryItem(Egg)
    \/ UpdateMealInPlan(ThisWeekStart, "monday", "r1")
    \/ ClearMealFromPlan(ThisWeekStart, "monday")
    \/ ClearWeek(ThisWeekStart)
    \/ LogPrices(ThisWeekStart,
                 <<[item |-> Egg, price |-> "2.99"], [item |-> Flour, price |-> "1.50"]>>,
                 "2024-01-20")

\* the operations on the shopping list
ChangesShoppingList ==
    \/ GenerateShoppingList(ThisWeekStart)
    \/ UpdateShoppingItem(ThisWeekStart, Egg, "TRUE")
    \/ \E item \in ManualRows : item.week_start = ThisWeekStart /\ AddManualShoppingItem(item)

NextFrame ==
    \/ LoadAll
    \/ ChangesData
    \/ ChangesShoppingList

SpecFrame == InitFrame /\ [][NextFrame]_vars

\* ------------------------------------------------------------------------
\* Scaling: the same store over a spreadsheet whose serving counts and
\* quantities are any cell text (the Recipes and Ingredients tabs are plain
\* spreadsheet cells; the recipe form takes the quantity as free text)
\* ------------------------------------------------------------------------

\* texts of the servings cell: numbers, an empty cell, zero, words, negative
ServingsTexts ==
    { <<"4">>, <<"2">>, << >>, <<"0">>, <<"a", "b", "c">>, <<"-", "2">> }

ScalingRecipeTabs ==
    { <<[id |-> "r1", servings |-> t]>> : t \in ServingsTexts }

ScalingIngredientRows ==
    << [recipe_id |-> "r1", item |-> Flour, quantity |-> <<"2">>,
        unit |-> "cup", category |-> "pantry"],
       [recipe_id |-> "r1", item |-> Egg, quantity |-> <<"-", "1">>,
        unit |-> "whole", category |-> "dairy"],
       [recipe_id |-> "r1", item |-> FlourCap, quantity |-> <<"a", "b", "c">>,
        unit |-> "g", category |-> "bakery"] >>

InitScaling ==
    /\ sheetRecipes \in ScalingRecipeTabs
    /\ sheetIngredients \in TabsUpTo(ScalingIngredientRows, MaxIngredients)
    /\ sheetInventory \in TabsUpTo(InventoryRows, MaxInventory)
    /\ sheetMealPlan = << >>
    /\ sheetShoppingList = << >>
    /\ recipes = << >>
    /\ ingredients = << >>
    /\ inventory = << >>
    /\ mealPlan = << >>
    /\ shoppingList = << >>
    /\ sheetPriceHistory = << >>
    /\ priceHistory = << >>
    /\ appShown = FALSE
    /\ last = NoCall
    /\ OthersIdle

NextScaling ==
    \/ LoadAll
    \/ \E c \in PlannerChoices : UpdateMealInPlan(ThisWeekStart, c[1], c[2])
    \/ GenerateShoppingList(ThisWeekStart)

SpecScaling == InitScaling /\ [][NextScaling]_vars

\* ------------------------------------------------------------------------
\* Helpers of units.js called on their own: parseQuantity, normalizeUnit,
\* normalizeItemName
\* ------------------------------------------------------------------------

\* the longest text a helper is called with
MaxLen == 5

\* all texts over an alphabet, up to MaxLen characters
TextsOver(alphabet) == UNION { [1..n -> alphabet] : n \in 0..MaxLen }

\* characters of quantity texts: digits, the fraction bar, white space, the
\* decimal point, a letter
QuantityAlphabet == {"1", "2", "0", "/", " ", ".", "a"}

\* characters of unit texts: the letters of 'c', 'cup', 'cups' in both cases,
\* other orders of them, white space
UnitAlphabet == {"c", "u", "p", "s", "C", " "}

\* characters of item names: a lower-case and an upper-case letter, white space
ItemAlphabet == {"a", "B", " ", "\t"}

\* numbers passed to parseQuantity instead of text
NumberArgs == {Zero, Rat(3, 2), Rat(-1, 1), NaN}

StringArg(s) == [type |-> "string", value |-> s]

NumberArg(x) == [type |-> "number", value |-> x]

\* units.js unitMap
unitMap ==
    (<<"t", "s", "p">> :> <<"t", "s", "p">>) @@
    (<<"t", "e", "a", "s", "p", "o", "o", "n">> :> <<"t", "s", "p">>) @@
    (<<"t", "e", "a", "s", "p", "o", "o", "n", "s">> :> <<"t", "s", "p">>) @@
    (<<"t", "b", "s", "p">> :> <<"t", "b", "s", "p">>) @@
    (<<"t", "a", "b", "l", "e", "s", "p", "o", "o", "n">> :> <<"t", "b", "s", "p">>) @@
    (<<"t", "a", "b", "l", "e", "s", "p", "o", "o", "n", "s">> :> <<"t", "b", "s", "p">>) @@
    (<<"c", "u", "p">> :> <<"c", "u", "p">>) @@
    (<<"c", "u", "p", "s">> :> <<"c", "u", "p">>) @@
    (<<"c">> :> <<"c", "u", "p">>) @@
    (<<"f", "l", " ", "o", "z">> :> <<"f", "l", " ", "o", "z">>) @@
    (<<"f", "l", "u", "i", "d", " ", "o", "u", "n", "c", "e">> :> <<"f", "l", " ", "o", "z">>) @@
    (<<"f", "l", "u", "i", "d", " ", "o", "u", "n", "c", "e", "s">> :> <<"f", "l", " ", "o", "z">>) @@
    (<<"p", "t">> :> <<"p", "t">>) @@
    (<<"p", "i", "n", "t">> :> <<"p", "t">>) @@
    (<<"p", "i", "n", "t", "s">> :> <<"p", "t">>) @@
    (<<"q", "t">> :> <<"q", "t">>) @@
    (<<"q", "u", "a", "r", "t">> :> <<"q", "t">>) @@
    (<<"q", "u", "a", "r", "t", "s">> :> <<"q", "t">>) @@
    (<<"g", "a", "l">> :> <<"g", "a", "l">>) @@
    (<<"g", "a", "l", "l", "o", "n">> :> <<"g", "a", "l">>) @@
    (<<"g", "a", "l", "l", "o", "n", "s">> :> <<"g", "a", "l">>) @@
    (<<"m", "l">> :> <<"m", "l">>) @@
    (<<"m", "i", "l", "l", "i", "l", "i", "t", "e", "r">> :> <<"m", "l">>) @@
    (<<"m", "i", "l", "l", "i", "l", "i", "t", "e", "r", "s">> :> <<"m", "l">>) @@
    (<<"l">> :> <<"l">>) @@
    (<<"l", "i", "t", "e", "r">> :> <<"l">>) @@
    (<<"l", "i", "t", "e", "r", "s">> :> <<"l">>) @@
    (<<"o", "z">> :> <<"o", "z">>) @@
    (<<"o", "u", "n", "c", "e">> :> <<"o", "z">>) @@
    (<<"o", "u", "n", "c", "e", "s">> :> <<"o", "z">>) @@
    (<<"l", "b">> :> <<"l", "b">>) @@
    (<<"l", "b", "s">> :> <<"l", "b">>) @@
    (<<"p", "o", "u", "n", "d">> :> <<"l", "b">>) @@
    (<<"p", "o", "u", "n", "d", "s">> :> <<"l", "b">>) @@
    (<<"g">> :> <<"g">>) @@
    (<<"g", "r", "a", "m">> :> <<"g">>) @@
    (<<"g", "r", "a", "m", "s">> :> <<"g">>) @@
    (<<"k", "g">> :> <<"k", "g">>) @@
    (<<"k", "i", "l", "o", "g", "r", "a", "m">> :> <<"k", "g">>) @@
    (<<"k", "i", "l", "o", "g", "r", "a", "m", "s">> :> <<"k", "g">>) @@
    (<<"p", "i", "e", "c", "e">> :> <<"p", "i", "e", "c", "e">>) @@
    (<<"p", "i", "e", "c", "e", "s">> :> <<"p", "i", "e", "c", "e">>) @@
    (<<"w", "h", "o", "l", "e">> :> <<"w", "h", "o", "l", "e">>) @@
    (<<"c", "o", "u", "n", "t">> :> <<"c", "o", "u", "n", "t">>) @@
    (<<"e", "a", "c", "h">> :> <<"e", "a", "c", "h">>) @@
    (<<"c", "l", "o", "v", "e">> :> <<"c", "l", "o", "v", "e">>) @@
    (<<"c", "l", "o", "v", "e", "s">> :> <<"c", "l", "o", "v", "e">>) @@
    (<<"c", "a", "n">> :> <<"c", "a", "n">>) @@
    (<<"c", "a", "n", "s">> :> <<"c", "a", "n">>) @@
    (<<"p", "a", "c", "k", "a", "g", "e">> :> <<"p", "a", "c", "k", "a", "g", "e">>) @@
    (<<"p", "a", "c", "k", "a", "g", "e", "s">> :> <<"p", "a", "c", "k", "a", "g", "e">>) @@
    (<<"b", "u", "n", "c", "h">> :> <<"b", "u", "n", "c", "h">>) @@
    (<<"b", "u", "n", "c", "h", "e", "s">> :> <<"b", "u", "n", "c", "h">>)

\* units.js normalizeUnit, for a string argument
normalizeUnit(unit) ==
    IF unit = << >> THEN << >>
    ELSE LET normalized == trim(toLowerCase(unit))
         IN  IF normalized \in DOMAIN unitMap THEN unitMap[normalized] ELSE normalized

\* units.js parseQuantity: a number is returned as it is
parseQuantityOf(a) ==
    IF a.type = "number" THEN a.value ELSE parseQuantity(a.value)

\* a call of a helper: its name, its argument and what it returned
HelperCall(fn, a, value) == [fn |-> fn, arg |-> a, value |-> value]

CallParseQuantity ==
    /\ result' = HelperCall("parseQuantity", arg, parseQuantityOf(arg))
    /\ prev' = result
    /\ UNCHANGED <<arg, storeVars>>
    /\ UnchangedExcept("units")

CallNormalizeUnit ==
    /\ arg.type = "string"
    /\ result' = HelperCall("normalizeUnit", arg, StringArg(normalizeUnit(arg.value)))
    /\ prev' = result
    /\ UNCHANGED <<arg, storeVars>>
    /\ UnchangedExcept("units")

CallNormalizeItemName ==
    /\ arg.type = "string"
    /\ result' = HelperCall("normalizeItemName", arg,
                            StringArg(normalizeItemName(arg.value)))
    /\ prev' = result
    /\ UNCHANGED <<arg, storeVars>>
    /\ UnchangedExcept("units")

\* the value of the last call becomes the argument of the next one
PassOn ==
    /\ result.fn \in {"normalizeUnit", "normalizeItemName"}
    /\ arg' = result.value
    /\ UNCHANGED <<result, prev, storeVars>>
    /\ UnchangedExcept("units")

\* the store is not in use: no tab holds a row and nothing is cached
StoreUnused ==
    /\ sheetRecipes = << >>
    /\ sheetIngredients = << >>
    /\ sheetInventory = << >>
    /\ sheetMealPlan = << >>
    /\ sheetShoppingList = << >>
    /\ sheetPriceHistory = << >>
    /\ recipes = << >>
    /\ ingredients = << >>
    /\ inventory = << >>
    /\ mealPlan = << >>
    /\ shoppingList = << >>
    /\ priceHistory = << >>
    /\ appShown = FALSE
    /\ last = NoCall

InitQuantity ==
    /\ StoreUnused
    /\ arg \in {StringArg(s) : s \in TextsOver(QuantityAlphabet)}
                  \cup {NumberArg(x) : x \in NumberArgs}
    /\ result = NoResult
    /\ prev = NoResult
    /\ IdleExcept("units")

NextQuantity == CallParseQuantity

SpecQuantity == InitQuantity /\ [][NextQuantity]_vars

InitUnit ==
    /\ StoreUnused
    /\ arg \in {StringArg(s) : s \in TextsOver(UnitAlphabet)}
    /\ result = NoResult
    /\ prev = NoResult
    /\ IdleExcept("units")

NextUnit ==
    \/ CallNormalizeUnit
    \/ PassOn

SpecUnit == InitUnit /\ [][NextUnit]_vars

InitItemName ==
    /\ StoreUnused
    /\ arg \in {StringArg(s) : s \in TextsOver(ItemAlphabet)}
    /\ result = NoResult
    /\ prev = NoResult
    /\ IdleExcept("units")

NextItemName ==
    \/ CallNormalizeItemName
    \/ PassOn

SpecItemName == InitItemName /\ [][NextItemName]_vars

\* ------------------------------------------------------------------------
\* Budget: the budget view's actual total of a week (views/planner.js)
\*
\* A calendar date 'YYYY-MM-DD' is the number of its day, counted from Monday
\* 2024-10-28 (day 0).  An instant is a number of hours, counted from
\* 2024-10-28T00:00Z.  A time zone gives the hours local clocks are ahead of
\* UTC before and from the instant its clocks are changed.
\* ------------------------------------------------------------------------

\* the PriceHistory tab of the budget view holds at most this many entries
MaxBudgetEntries == 3

HoursPerDay == 24

\* a date cell: a date, or an empty cell
DateText(n) == [empty |-> FALSE, day |-> n]

EmptyDate == [empty |-> TRUE, day |-> 0]

\* UTC; Tokyo, which never changes its clocks; New York, whose clocks went
\* back from UTC-4 to UTC-5 on 2024-11-03 at 06:00Z
TimeZones ==
    { [name |-> "UTC", before |-> 0, after |-> 0, change |-> 0],
      [name |-> "Asia/Tokyo", before |-> 9, after |-> 9, change |-> 0],
      [name |-> "America/New_York", before |-> -4, after |-> -5,
       change |-> 6 * HoursPerDay + 6] }

\* the hours local clocks are ahead of UTC at instant t
OffsetAt(zone, t) == IF t < zone.change THEN zone.before ELSE zone.after

\* the instant at which local clocks show the wall-clock time `wall`
FromLocal(zone, wall) ==
    IF wall - zone.after >= zone.change THEN wall - zone.after
    ELSE wall - zone.before

\* new Date('YYYY-MM-DD'): midnight UTC of the day
NewDate(text) == text.day * HoursPerDay

\* date.setDate(date.getDate() + days): the local calendar day is moved and
\* the local time of day is kept
SetDatePlus(zone, t, days) ==
    FromLocal(zone, t + OffsetAt(zone, t) + days * HoursPerDay)

\* the filter of lastWeekPrices
InLastWeek(zone, p, lastWeekStart) ==
    IF p.date.empty THEN FALSE
    ELSE LET priceDate == NewDate(p.date)
             weekStart == NewDate(DateText(lastWeekStart))
             weekEnd   == SetDatePlus(zone, weekStart, 7)
         IN  priceDate >= weekStart /\ priceDate < weekEnd

\* lastWeekPrices.forEach(p => { if (p.price) lastWeekActual += parseFloat(p.price) })
RECURSIVE LastWeekActual(_, _, _)
LastWeekActual(zone, prices, lastWeekStart) ==
    IF prices = << >> THEN Zero
    ELSE LET p    == prices[Len(prices)]
             rest == LastWeekActual(zone, SubSeq(prices, 1, Len(prices) - 1),
                                    lastWeekStart)
         IN  IF InLastWeek(zone, p, lastWeekStart) /\ p.price # << >>
             THEN RAdd(rest, parseFloat(p.price)) ELSE rest

\* BudgetView.render in a browser of the given time zone, for the week
\* before the current one
RenderBudget(zone, lastWeekStart) ==
    /\ appShown
    /\ budget' = [weekStart |-> lastWeekStart, zone |-> zone.name,
                  lastWeekActual |-> LastWeekActual(zone, priceHistory, lastWeekStart)]
    /\ UNCHANGED storeVars
    /\ UnchangedExcept("budget")

\* entries of the PriceHistory tab: the day before the week of 2024-10-28,
\* its Monday, its Sunday, the Monday after it, and an entry without a date
BudgetRows ==
    << [date |-> DateText(-1), item |-> Flour, price |-> <<"1">>, store |-> ""],
       [date |-> DateText(0), item |-> Flour, price |-> <<"2">>, store |-> ""],
       [date |-> DateText(6), item |-> Egg, price |-> <<"4">>, store |-> ""],
       [date |-> DateText(7), item |-> Egg, price |-> <<"8">>, store |-> ""],
       [date |-> EmptyDate, item |-> Egg, price |-> <<"1", "6">>, store |-> ""] >>

\* the weeks the view is rendered for: those of 2024-10-21 and 2024-10-28
LastWeekStarts == {-7, 0}

InitBudget ==
    /\ StoreUnused
    /\ budget = NoBudget
    /\ IdleExcept("budget")

\* the price history is what a session logged before this one
LoadPriceHistory ==
    /\ ~appShown
    /\ \E tab \in TabsUpTo(BudgetRows, MaxBudgetEntries) :
           /\ sheetPriceHistory' = tab
           /\ priceHistory' = readAsObjects(tab)
    /\ appShown' = TRUE
    /\ UNCHANGED <<catalogSheets, catalogCache, planVars, shopVars, last, otherVars>>

NextBudget ==
    \/ LoadPriceHistory
    \/ \E zone \in TimeZones : \E w \in LastWeekStarts : RenderBudget(zone, w)

SpecBudget == InitBudget /\ [][NextBudget]_vars

\* ------------------------------------------------------------------------
\* Race: generateShoppingList calls whose awaits interleave.  A call runs
\* without interruption up to its first await and between two awaits; each
\* request to the spreadsheet (read, clear, write) is one step.
\* ------------------------------------------------------------------------

\* values.update at A1: the rows given replace the rows in their place; rows
\* below them stay
SheetWrite(tab, values) == values \o SubSeq(tab, Len(values) + 1, Len(tab))

\* values.clear on the tab
SheetClear(tab) == << >>

NoCallInFlight == \A c \in Callers : race.calls[c].pc = "idle"

RaceStoreFrame ==
    UNCHANGED <<catalogSheets, catalogCache, planVars, priceVars, appShown, last>>

\* generateShoppingList up to `await sheets.readAsObjects('ShoppingList')`
StartGenerate(c, weekStart) ==
    /\ appShown
    /\ race.calls[c].pc = "idle"
    /\ race' = [base  |-> IF NoCallInFlight THEN sheetShoppingList ELSE race.base,
                calls |-> [race.calls EXCEPT ![c] =
                    IF NoMealsPlanned(getMealPlanForWeek(weekStart))
                    THEN [NoGenerate EXCEPT !.pc = "failed", !.week = weekStart]
                    ELSE [pc |-> "read", week |-> weekStart,
                          shoppingItems |-> ShoppingItems(weekStart),
                          newList |-> << >>]]]
    /\ UNCHANGED shopVars
    /\ RaceStoreFrame
    /\ UnchangedExcept("race")

\* the read returns; newList is built and writeObjects is entered: it returns
\* at once for an empty list and requests the clear otherwise
ReadReturns(c) ==
    LET call             == race.calls[c]
        allShoppingItems == readAsObjects(sheetShoppingList)
        otherWeeks       == OtherWeeks(allShoppingItems, call.week)
        newList          == otherWeeks \o call.shoppingItems
    IN  /\ call.pc = "read"
        /\ race' = [race EXCEPT !.calls[c] =
                       [call EXCEPT !.newList = newList,
                                    !.pc = IF Len(newList) = 0 THEN "load" ELSE "clear"]]
        /\ UNCHANGED shopVars
        /\ RaceStoreFrame
        /\ UnchangedExcept("race")

\* await this.clear(tabName)
ClearReturns(c) ==
    /\ race.calls[c].pc = "clear"
    /\ sheetShoppingList' = SheetClear(sheetShoppingList)
    /\ race' = [race EXCEPT !.calls[c].pc = "write"]
    /\ UNCHANGED shoppingList
    /\ RaceStoreFrame
    /\ UnchangedExcept("race")

\* await this.write(tabName, 'A1', values)
WriteReturns(c) ==
    /\ race.calls[c].pc = "write"
    /\ sheetShoppingList' = SheetWrite(sheetShoppingList, race.calls[c].newList)
    /\ race' = [race EXCEPT !.calls[c].pc = "load"]
    /\ UNCHANGED shoppingList
    /\ RaceStoreFrame
    /\ UnchangedExcept("race")

\* await this.loadShoppingList(); return shoppingItems
LoadReturns(c) ==
    /\ race.calls[c].pc = "load"
    /\ shoppingList' = readAsObjects(sheetShoppingList)
    /\ race' = [race EXCEPT !.calls[c].pc = "done"]
    /\ UNCHANGED sheetShoppingList
    /\ RaceStoreFrame
    /\ UnchangedExcept("race")

\* a catalogue of two recipes: r1 takes flour and egg, r2 takes flour; the
\* inventory is empty, so every ingredient of a planned recipe is listed
InitRace ==
    /\ sheetRecipes = <<[id |-> "r1", servings |-> <<"4">>],
                        [id |-> "r2", servings |-> <<"2">>]>>
    /\ sheetIngredients = <<IngredientRows[1], IngredientRows[4], IngredientRows[3]>>
    /\ sheetInventory = << >>
    /\ sheetMealPlan = << >>
    /\ sheetShoppingList = << >>
    /\ sheetPriceHistory = << >>
    /\ recipes = << >>
    /\ ingredients = << >>
    /\ inventory = << >>
    /\ mealPlan = << >>
    /\ shoppingList = << >>
    /\ priceHistory = << >>
    /\ appShown = FALSE
    /\ last = NoCall
    /\ race = NoRace
    /\ IdleExcept("race")

\* the plan is set and another week's list gets an item; then both callers
\* generate the list of the week shown, the plan possibly changing in between
NextRace ==
    \/ LoadAll
    \/ \E r \in RecipeIds : UpdateMealInPlan(ThisWeekStart, "monday", r)
    \/ \E item \in ManualRows :
           /\ NoCallInFlight
           /\ item.week_start # ThisWeekStart
           /\ AddManualShoppingItem(item)
    \/ \E c \in Callers : StartGenerate(c, ThisWeekStart)
    \/ \E c \in Callers : ReadReturns(c)
    \/ \E c \in Callers : ClearReturns(c)
    \/ \E c \in Callers : WriteReturns(c)
    \/ \E c \in Callers : LoadReturns(c)

SpecRace == InitRace /\ [][NextRace]_vars

\* ------------------------------------------------------------------------
\* Week navigation: the date utilities and the planner view's weekStart.
\* A calendar date is its day number from Monday 2024-10-28, a Date is its
\* instant in hours from 2024-10-28T00:00Z, as in the budget view above.
\* ------------------------------------------------------------------------

MaxWeeksAway == 2

\* the zones above and Santiago, whose clocks went forward from UTC-4 to
\* UTC-3 on Sunday 2024-09-08 at 04:00Z (local midnight)
PlannerZones ==
    TimeZones \cup
    { [name |-> "America/Santiago", before |-> -4, after |-> -3,
       change |-> 4 - 50 * HoursPerDay] }

\* formatDate: the local calendar date of the instant
formatDate(zone, date) == (date + OffsetAt(zone, date)) \div HoursPerDay

\* parseDate: new Date(dateStr + 'T00:00:00'), local midnight of the date
parseDate(zone, dateStr) == FromLocal(zone, dateStr * HoursPerDay)

\* Date.getDay in local time: 0 is Sunday, 1 is Monday
getDay(zone, date) == (formatDate(zone, date) + 1) % 7

\* a getMonday without the adjustment for Sunday
getMonday_noSundayCase(zone, date) ==
    SetDatePlus(zone, date, 1 - getDay(zone, date))

\* getMonday: d.setDate(d.getDate() - day + (day === 0 ? -6 : 1))
getMonday(zone, date) ==
    LET day == getDay(zone, date)
    IN  SetDatePlus(zone, date, (IF day = 0 THEN -6 ELSE 1) - day)

getWeekStart(zone, date) == formatDate(zone, getMonday(zone, date))

getPreviousWeek(zone, weekStart) ==
    formatDate(zone, SetDatePlus(zone, parseDate(zone, weekStart), -7))

getNextWeek(zone, weekStart) ==
    formatDate(zone, SetDatePlus(zone, parseDate(zone, weekStart), 7))

\* the instants at which the view is opened: four hours of each day of the
\* three weeks around either clock change
OpeningTimes ==
    {d * HoursPerDay + h : d \in (-58..-44) \cup (-7..13), h \in {0, 3, 12, 23}}

\* new PlannerView(): this.weekStart = getWeekStart()
OpenPlanner(zone, now) ==
    /\ planner.step = "closed"
    /\ planner' = [zone |-> zone, now |-> now,
                   weekStart |-> getWeekStart(zone, now), from |-> 0,
                   step |-> "open"]
    /\ UNCHANGED storeVars
    /\ UnchangedExcept("planner")

\* navigation stays within MaxWeeksAway weeks of the day the view was opened
WithinReach(weekStart) ==
    Abs(weekStart - formatDate(planner.zone, planner.now)) <= 7 * MaxWeeksAway

\* the click handler of #prev-week
PreviousWeekClick ==
    /\ planner.step # "closed"
    /\ WithinReach(getPreviousWeek(planner.zone, planner.weekStart))
    /\ planner' = [planner EXCEPT
                       !.weekStart = getPreviousWeek(planner.zone, planner.weekStart),
                       !.from = planner.weekStart, !.step = "previous"]
    /\ UNCHANGED storeVars
    /\ UnchangedExcept("planner")

\* the click handler of #next-week
NextWeekClick ==
    /\ planner.step # "closed"
    /\ WithinReach(getNextWeek(planner.zone, planner.weekStart))
    /\ planner' = [planner EXCEPT
                       !.weekStart = getNextWeek(planner.zone, planner.weekStart),
                       !.from = planner.weekStart, !.step = "next"]
    /\ UNCHANGED storeVars
    /\ UnchangedExcept("planner")

InitWeekNav ==
    /\ StoreUnused
    /\ planner = NoPlanner
    /\ IdleExcept("planner")

NextWeekNav ==
    \/ \E zone \in PlannerZones : \E now \in OpeningTimes : OpenPlanner(zone, now)
    \/ PreviousWeekClick
    \/ NextWeekClick

SpecWeekNav == InitWeekNav /\ [][NextWeekNav]_vars

\* ------------------------------------------------------------------------
\* Firestore: the documented security rules and the FirestoreDB wrapper
\* ------------------------------------------------------------------------

\* the uids of the accounts that sign in
Users == {"alice", "bob"}

Kinds == {"read", "write"}

\* the rules of the setup guide, for a request on a document under
\* users/{owner}: match /{document=**} { allow read, write: if request.auth != null; }
RulesAllow(requestAuth, owner, kind) == requestAuth # "none"

\* the request reaches Firestore with the signed-in user as request.auth
Request(via, kind, owner) ==
    LET allowed == RulesAllow(firestore.user, owner, kind)
    IN  [firestore EXCEPT
            !.granted = IF allowed
                        THEN @ \cup {[by |-> firestore.user, owner |-> owner]}
                        ELSE @,
            !.last = [via |-> via, kind |-> kind, auth |-> firestore.user,
                      owner |-> owner, allowed |-> allowed]]

\* onAuthStateChanged after signInWithPopup: this.user = user
SignIn(u) ==
    /\ firestore.user = "none"
    /\ firestore' = [firestore EXCEPT !.user = u]
    /\ UNCHANGED storeVars
    /\ UnchangedExcept("firestore")

\* FirebaseAuth.signOut: this.user = null
SignOut ==
    /\ firestore.user # "none"
    /\ firestore' = [firestore EXCEPT !.user = "none"]
    /\ UNCHANGED storeVars
    /\ UnchangedExcept("firestore")

\* FirestoreDB.init: db and userId are assigned before the check that throws
\* 'User not authenticated'
DbInit ==
    /\ firestore' = [firestore EXCEPT !.db = TRUE, !.userId = firestore.user]
    /\ UNCHANGED storeVars
    /\ UnchangedExcept("firestore")

\* FirestoreDB.getUserCollection: the uid in the path it returns
getUserCollection ==
    IF firestore.userId = "none" THEN firestore.user ELSE firestore.userId

\* a wrapper operation (read, query, create, update, set, delete, ...): its
\* request goes to the collection getUserCollection returns; without db, or
\* with no uid for the path, the call throws before any request
WrapperOp(kind) ==
    /\ firestore.db
    /\ firestore' =
           IF getUserCollection = "none" THEN firestore
           ELSE [Request("wrapper", kind, getUserCollection)
                     EXCEPT !.userId = getUserCollection]
    /\ UNCHANGED storeVars
    /\ UnchangedExcept("firestore")

\* a request the page makes with the Firestore SDK itself, on a document
\* under users/{owner}
SdkRequest(kind, owner) ==
    /\ firestore' = Request("sdk", kind, owner)
    /\ UNCHANGED storeVars
    /\ UnchangedExcept("firestore")

InitFirestore ==
    /\ StoreUnused
    /\ firestore = NoFirestore
    /\ IdleExcept("firestore")

NextFirestore ==
    \/ \E u \in Users : SignIn(u)
    \/ SignOut
    \/ DbInit
    \/ \E kind \in Kinds : WrapperOp(kind)
    \/ \E kind \in Kinds : \E owner \in Users : SdkRequest(kind, owner)

SpecFirestore == InitFirestore /\ [][NextFirestore]_vars

\* ------------------------------------------------------------------------
\* SDK loaders: waitForFirebase, loadGapi, loadGis
\* ------------------------------------------------------------------------

maxAttempts == 50

\* waitForFirebase, loadGapi, loadGis
Loaders == {"firebase", "gapi", "gis"}

\* resolve() or reject(error): a promise keeps its first settlement
Settle(l, outcome, error) ==
    [l EXCEPT !.pc = "done",
              !.outcome = IF l.outcome = "pending" THEN outcome ELSE @,
              !.error = IF l.outcome = "pending" THEN error ELSE @,
              !.settles = @ + 1]

\* one run of tryLoad.  With the SDK on the page waitForFirebase resolves,
\* loadGapi hands its callback to gapi.load('client', ...), and loadGis
\* resolves unless initTokenClient throws; without it the attempt is counted
\* and the loader rejects or sets the next timer.
TryLoad(l, throws) ==
    LET polled == [l EXCEPT !.polls = @ + 1]
    IN  IF l.sdk
        THEN LET seen == [polled EXCEPT !.sawSdk = TRUE]
             IN  CASE l.name = "firebase" -> Settle(seen, "resolved", "none")
                   [] l.name = "gapi" -> [seen EXCEPT !.pc = "loadingClient"]
                   [] OTHER -> IF throws THEN Settle(seen, "rejected", "init")
                               ELSE Settle(seen, "resolved", "none")
        ELSE LET counted == [polled EXCEPT !.attempts = @ + 1]
             IN  IF counted.attempts >= maxAttempts
                 THEN Settle(counted, "rejected", "load-failure")
                 ELSE [counted EXCEPT !.pc = "scheduled"]

\* the loader is called: new Promise(...) runs tryLoad() at once
StartLoader(name, throws) ==
    /\ loader.pc = "idle"
    /\ loader' = TryLoad([loader EXCEPT !.name = name], throws)
    /\ UNCHANGED storeVars
    /\ UnchangedExcept("loader")

\* setTimeout(tryLoad, 100) fires
TimerFires(throws) ==
    /\ loader.pc = "scheduled"
    /\ loader' = TryLoad(loader, throws)
    /\ UNCHANGED storeVars
    /\ UnchangedExcept("loader")

\* the SDK's script has run: its global is defined from now on
SdkArrives ==
    /\ ~loader.sdk
    /\ loader' = [loader EXCEPT !.sdk = TRUE]
    /\ UNCHANGED storeVars
    /\ UnchangedExcept("loader")

\* the callback of gapi.load('client', ...): gapi.client.init resolves or
\* rejects
ClientCallback(ok) ==
    /\ loader.pc = "loadingClient"
    /\ loader' = IF ok THEN Settle(loader, "resolved", "none")
                 ELSE Settle(loader, "rejected", "init")
    /\ UNCHANGED storeVars
    /\ UnchangedExcept("loader")

InitLoader ==
    /\ StoreUnused
    /\ loader = NoLoader
    /\ IdleExcept("loader")

NextLoader ==
    \/ \E name \in Loaders : \E throws \in BOOLEAN : StartLoader(name, throws)
    \/ \E throws \in BOOLEAN : TimerFires(throws)
    \/ SdkArrives
    \/ \E ok \in BOOLEAN : ClientCallback(ok)

SpecLoader == InitLoader /\ [][NextLoader]_vars

\* ------------------------------------------------------------------------
\* Properties
\* ------------------------------------------------------------------------

\* the last call was generateShoppingList
GenerateDone == last.op = "generateShoppingList"

\* ... and it returned a list
GenerateOk == GenerateDone /\ last.outcome = "ok"

\* the aggregated lines of the last generateShoppingList call (the call does
\* not change the collections it reads)
LastAggregated == Aggregated(last.week)

InReturned(item) == \E j \in 1..Len(last.returned) : last.returned[j].item = item

\* the inventory records whose name equals `item` up to letter case
RecordsFor(item) ==
    {i \in 1..Len(inventory) : toLowerCase(inventory[i].item) = toLowerCase(item)}

\* the inventory records whose normalized name is that of `item`
RecordsForNormalized(item) ==
    {i \in 1..Len(inventory) :
        normalizeItemName(inventory[i].item) = normalizeItemName(item)}

\* the value of a plain decimal text (digits, at most one point)
IsPlainDecimal(t) ==
    /\ \A i \in 1..Len(t) : t[i] \in Digits \cup {"."}
    /\ Cardinality({i \in 1..Len(t) : t[i] = "."}) <= 1
    /\ \E i \in 1..Len(t) : t[i] \in Digits

DecimalValue(t) ==
    LET IsDigit(c) == c \in Digits
        dot        == {i \in 1..Len(t) : t[i] = "."}
        places     == IF dot = {} THEN 0 ELSE Len(t) - (CHOOSE i \in dot : TRUE)
    IN  Rat(parseInt(SelectSeq(t, IsDigit)), Pow10(places))

RECURSIVE SumSeq(_)
SumSeq(xs) == IF xs = << >> THEN Zero ELSE RAdd(Head(xs), SumSeq(Tail(xs)))

\* the <<ingredient row, recipe row>> index pairs the last call went through, in
\* meal-plan then ingredient order; unresolved entries contribute none
RECURSIVE Contributions(_)
Contributions(weekMeals) ==
    IF weekMeals = << >> THEN << >>
    ELSE LET id      == Head(weekMeals).recipe_id
             rs      == {r \in 1..Len(recipes) : recipes[r].id = id}
             OfId(i) == ingredients[i].recipe_id = id
             idxs    == SelectSeq([i \in 1..Len(ingredients) |-> i], OfId)
         IN  (IF rs = {} THEN << >>
              ELSE [k \in 1..Len(idxs) |->
                       <<idxs[k], CHOOSE r \in rs : \A q \in rs : r <= q>>])
             \o Contributions(Tail(weekMeals))

LastContributions == Contributions(getMealPlanForWeek(last.week))

\* q * (2.5 / s) for plain decimal texts q and s
ScaledDecimal(q, s) ==
    LET qv == DecimalValue(q)
        sv == DecimalValue(s)
    IN  Rat(qv[1] * 5 * sv[2], qv[2] * 2 * sv[1])

\* C1 (as claimed): after generateShoppingList, an aggregated item is left out
\* of the returned list if and only if some inventory record has the item's
\* normalized name (lowercase, trimmed) and status 'have'.
C1_ExcludedIffHave ==
    GenerateOk =>
        \A k \in 1..Len(LastAggregated) :
            LET a == LastAggregated[k]
            IN  (~InReturned(a.item)) <=>
                    (\E i \in RecordsForNormalized(a.item) : inventory[i].status = "have")

\* C2: generateShoppingList for a week without a meal-plan entry fails with
\* the no-meals-planned error and leaves the ShoppingList tab and the cached
\* shopping list as they were.
C2_NoMealsFailsUnchanged ==
    (GenerateDone /\ getMealPlanForWeek(last.week) = << >>) =>
        /\ last.outcome = "NoMealsPlanned"
        /\ sheetShoppingList = last.preSheet
        /\ shoppingList = last.preCache

\* C2 witness: the call failed for a week that has persisted shopping items
C2_Witness ==
    /\ GenerateDone
    /\ last.outcome = "NoMealsPlanned"
    /\ ThisWeek(last.preSheet, last.week) # << >>
    /\ ThisWeek(sheetShoppingList, last.week) # << >>

\* C3: when the week has planned meals and every needed item is recorded in
\* the inventory with status 'have', generateShoppingList succeeds and returns
\* the empty list (not the no-meals-planned failure).
C3_AllHaveEmptyList ==
    ( /\ GenerateDone
      /\ getMealPlanForWeek(last.week) # << >>
      /\ LET agg == LastAggregated
         IN  \A k \in 1..Len(agg) :
                LET recs == RecordsFor(agg[k].item)
                IN  recs # {} /\ \A i \in recs : inventory[i].status = "have" )
    => (last.outcome = "ok" /\ last.returned = << >>)

\* C3 witness: a successful call with needed ingredients, all of them 'have'
C3_Witness ==
    /\ GenerateOk
    /\ last.returned = << >>
    /\ LET agg == LastAggregated
       IN  /\ agg # << >>
           /\ \A k \in 1..Len(agg) :
                 LET recs == RecordsFor(agg[k].item)
                 IN  recs # {} /\ \A i \in recs : inventory[i].status = "have"

\* C4 (as claimed): generateShoppingList fails with the no-meals-planned error
\* whenever no meal-plan entry of the week resolves to a recipe, also when the
\* week has entries.
C4_NoResolvableMealsFails ==
    ( /\ GenerateDone
      /\ \A k \in 1..Len(getMealPlanForWeek(last.week)) :
            getRecipe(getMealPlanForWeek(last.week)[k].recipe_id) = 0 )
    => last.outcome = "NoMealsPlanned"

\* C5 (as claimed): after a successful generateShoppingList(week) the
\* ShoppingList tab holds for that week exactly the returned items, and the
\* rows of the other weeks are those it held before.
C5_WeekReplacedOthersKept ==
    GenerateOk =>
        /\ ThisWeek(sheetShoppingList, last.week) = last.returned
        /\ OtherWeeks(sheetShoppingList, last.week) = OtherWeeks(last.preSheet, last.week)

\* C6 (as claimed): every manual item of the week that was in the ShoppingList
\* tab before a successful generateShoppingList(week) is still there after it.
C6_ManualItemsPreserved ==
    GenerateOk =>
        \A k \in 1..Len(last.preSheet) :
            (last.preSheet[k].week_start = last.week /\ last.preSheet[k].manual = "TRUE")
                => \E j \in 1..Len(sheetShoppingList) : sheetShoppingList[j] = last.preSheet[k]

\* C7: an ingredient with plain numeric quantity q of a resolved recipe with
\* positive numeric serving count s contributes q * (2.5 / s): that is the
\* scaled quantity of every such ingredient, an aggregated line whose
\* ingredients are all of that kind holds the sum of these contributions, and
\* the returned item holds the sum rounded to 2 decimals.
C7_ScaledContribution ==
    GenerateOk =>
      LET agg == LastAggregated
          con == LastContributions
      IN
        /\ \A c \in 1..Len(con) :
              LET ing == ingredients[con[c][1]]
                  rec == recipes[con[c][2]]
              IN  (IsPlainDecimal(ing.quantity) /\ IsPlainDecimal(rec.servings)
                      /\ DecimalValue(rec.servings) # Zero)
                  => ScaledQuantity(ing, Multiplier(rec))
                         = ScaledDecimal(ing.quantity, rec.servings)
        /\ \A k \in 1..Len(agg) :
              LET a    == agg[k]
                  mine == {c \in 1..Len(con) :
                              toLowerCase(ingredients[con[c][1]].item) = a.key}
                  total == SumSeq([c \in 1..Len(con) |->
                              IF c \in mine
                              THEN ScaledDecimal(ingredients[con[c][1]].quantity,
                                                 recipes[con[c][2]].servings)
                              ELSE Zero])
              IN  (\A c \in mine :
                      /\ IsPlainDecimal(ingredients[con[c][1]].quantity)
                      /\ IsPlainDecimal(recipes[con[c][2]].servings)
                      /\ DecimalValue(recipes[con[c][2]].servings) # Zero)
                  => /\ a.quantity = total
                     /\ \A j \in 1..Len(last.returned) :
                           last.returned[j].item = a.item
                               => last.returned[j].quantity
                                      = Rat((200 * total[1] + total[2]) \div (2 * total[2]), 100)

\* C7 witness: one planned recipe serving 4 whose only flour is quantity "2";
\* the list holds flour with quantity 1.25
C7_Witness ==
    /\ GenerateOk
    /\ Len(LastContributions) = 1
    /\ ingredients[LastContributions[1][1]].quantity = <<"2">>
    /\ recipes[LastContributions[1][2]].servings = <<"4">>
    /\ Len(last.returned) = 1
    /\ last.returned[1].quantity = Rat(5, 4)

\* C8 (as claimed): the returned list never holds two lines whose item names
\* are equal after normalization (lowercase and trim).
C8_OneLinePerNormalizedName ==
    GenerateOk =>
        \A j, k \in 1..Len(last.returned) :
            normalizeItemName(last.returned[j].item) = normalizeItemName(last.returned[k].item)
                => j = k

\* C9 (as claimed): every aggregated quantity is the sum over its ingredients
\* of parseQuantity(quantity) * multiplier.
C9_ParseQuantityScaling ==
    GenerateOk =>
        \A k \in 1..Len(LastAggregated) :
            LastAggregated[k].quantity =
                SumSeq([c \in 1..Len(LastContributions) |->
                    IF toLowerCase(ingredients[LastContributions[c][1]].item)
                           = LastAggregated[k].key
                    THEN RMul(parseQuantity(ingredients[LastContributions[c][1]].quantity),
                              Multiplier(recipes[LastContributions[c][2]]))
                    ELSE Zero])

\* C10: a returned item whose inventory record (the first record with the
\* item's name, letter case ignored) carries a typical price p has
\* estimated_price = p * aggregated quantity rounded to 2 decimals; without a
\* record or without a price the estimate is empty, never 0.
C10_EstimatedPrice ==
    GenerateOk =>
      LET agg == LastAggregated
      IN
        \A k \in 1..Len(agg) :
            \A j \in 1..Len(last.returned) :
                last.returned[j].item = agg[k].item =>
                    LET recs  == RecordsFor(agg[k].item)
                        first == CHOOSE i \in recs : \A q \in recs : i <= q
                        price == IF recs = {} THEN << >> ELSE inventory[first].typical_price
                        qty   == agg[k].quantity
                    IN  IF price # << >>
                        THEN LET p == DecimalValue(price)
                                 n == p[1] * qty[1]
                                 d == p[2] * qty[2]
                             IN  last.returned[j].estimated_price
                                     = Rat((200 * n + d) \div (2 * d), 100)
                        ELSE /\ last.returned[j].estimated_price = << >>
                             /\ last.returned[j].estimated_price # Zero

\* C10 witness: the list holds an item priced 3.99 * 1.25 = 4.99 (rounded
\* from 4.9875) and an item without an estimate
C10_Witness ==
    /\ GenerateOk
    /\ \E j \in 1..Len(last.returned) : last.returned[j].estimated_price = Rat(499, 100)
    /\ \E j \in 1..Len(last.returned) : last.returned[j].estimated_price = << >>

\* the sequence without its k-th element
RemoveAt(seq, k) == SubSeq(seq, 1, k - 1) \o SubSeq(seq, k + 1, Len(seq))

\* no cached recipe has this id
Unresolved(id) == \A r \in 1..Len(recipes) : recipes[r].id # id

\* C11: a meal-plan entry whose recipe does not resolve raises no error, and
\* when the week has another entry the returned list is the one the week
\* gives with that entry removed.
C11_UnresolvedSkipped ==
    GenerateDone =>
        LET weekMeals == getMealPlanForWeek(last.week)
        IN  \A k \in 1..Len(weekMeals) :
                Unresolved(weekMeals[k].recipe_id) =>
                    /\ last.outcome = "ok"
                    /\ Len(weekMeals) >= 2 =>
                           last.returned =
                               FilterAndPrice(last.week,
                                   AggregateMeals(<< >>, RemoveAt(weekMeals, k)))

\* C11 witness: an unresolved entry comes before a resolved one, and the list
\* holds the resolved recipe's items
C11_Witness ==
    /\ GenerateOk
    /\ LET weekMeals == getMealPlanForWeek(last.week)
       IN  /\ Len(weekMeals) = 2
           /\ Unresolved(weekMeals[1].recipe_id)
           /\ ~Unresolved(weekMeals[2].recipe_id)
    /\ last.returned # << >>

\* a servings text that is no number or is zero: empty, words, 0
ServingsUnusable(t) ==
    LET u == IF t # << >> /\ Head(t) \in {"+", "-"} THEN Tail(t) ELSE t
    IN  ~IsPlainDecimal(u) \/ DecimalValue(u) = Zero

C13_NonNegativeQuantities ==
    GenerateOk =>
        /\ \A c \in 1..Len(LastContributions) :
              Multiplier(recipes[LastContributions[c][2]])[1] >= 0
        /\ \A j \in 1..Len(last.returned) : last.returned[j].quantity[1] >= 0

\* C14: every item generateShoppingList returns, and every row it writes for
\* it, has checked = FALSE and manual = FALSE, also when a row of the same
\* week and item was ticked before the call.
C14_ProducedUnchecked ==
    GenerateOk =>
        /\ \A j \in 1..Len(last.returned) :
              /\ last.returned[j].checked = "FALSE"
              /\ last.returned[j].manual = "FALSE"
        /\ last.returned # << >> =>
              ThisWeek(sheetShoppingList, last.week) = last.returned

\* C14 witness: a ticked generated row of the week is regenerated
C14_Witness ==
    /\ GenerateOk
    /\ \E k \in 1..Len(last.preSheet) :
          /\ last.preSheet[k].week_start = last.week
          /\ last.preSheet[k].checked = "TRUE"
          /\ last.preSheet[k].manual = "FALSE"
          /\ \E j \in 1..Len(last.returned) :
                /\ last.returned[j].item = last.preSheet[k].item
                /\ last.returned[j].checked = "FALSE"

\* C15 (as claimed): each aggregated line has the name, unit and category of
\* the first ingredient gone through (meal-plan, then ingredient order) whose
\* normalized name is that of the line, and its quantity is the sum of the
\* scaled quantities of all ingredients of that normalized name, whatever
\* their units and categories.
C15_FirstOccurrenceSeedsLine ==
    GenerateOk =>
        LET agg == LastAggregated
            con == LastContributions
        IN  \A k \in 1..Len(agg) :
                LET same  == {c \in 1..Len(con) :
                                normalizeItemName(ingredients[con[c][1]].item)
                                    = normalizeItemName(agg[k].item)}
                    first == CHOOSE c \in same : \A d \in same : c <= d
                    seed  == ingredients[con[first][1]]
                IN  /\ agg[k].item = seed.item
                    /\ agg[k].unit = seed.unit
                    /\ agg[k].category = seed.category
                    /\ agg[k].quantity =
                           SumSeq([c \in 1..Len(con) |->
                               IF c \in same
                               THEN ScaledQuantity(ingredients[con[c][1]],
                                                   Multiplier(recipes[con[c][2]]))
                               ELSE Zero])

\* the rows of a tab that belong / do not belong to the recipe
OfRecipe(tab, id) ==
    LET Keep(i) == i.recipe_id = id IN Filter(tab, Keep)

NotOfRecipe(tab, id) ==
    LET Keep(i) == i.recipe_id # id IN Filter(tab, Keep)

\* C16 (as claimed): after a successful deleteRecipe(id) the Recipes tab has
\* no row with that id and the Ingredients tab no row of that recipe, and the
\* other recipes and ingredients are those from before the call.
C16_DeleteRecipeCascades ==
    (last.op = "deleteRecipe" /\ last.outcome = "ok") =>
        LET Other(r) == r.id # last.id
        IN  /\ \A k \in 1..Len(sheetRecipes) : sheetRecipes[k].id # last.id
            /\ OfRecipe(sheetIngredients, last.id) = << >>
            /\ Filter(sheetRecipes, Other) = Filter(last.preRecipes, Other)
            /\ NotOfRecipe(sheetIngredients, last.id)
                   = NotOfRecipe(last.preIngredients, last.id)

C19_OneRecordPerItem ==
    \A i, j \in 1..Len(sheetInventory) :
        normalizeItemName(sheetInventory[i].item)
            = normalizeItemName(sheetInventory[j].item) => i = j

\* C20: PriceHistory is append-only: every step of the store leaves each
\* entry the tab already holds in its place and unchanged; logPrices only
\* adds entries after them.
C20_AppendOnly ==
    [][/\ Len(sheetPriceHistory') >= Len(sheetPriceHistory)
       /\ SubSeq(sheetPriceHistory', 1, Len(sheetPriceHistory)) = sheetPriceHistory]_vars

\* prices were logged twice, on different days, and a shopping list was
\* generated afterwards
C20_Witness ==
    /\ Len(sheetPriceHistory) = 2
    /\ sheetPriceHistory[1].date # sheetPriceHistory[2].date
    /\ sheetPriceHistory[2].store = ""
    /\ priceHistory = sheetPriceHistory
    /\ last.op = "generateShoppingList"

\* a non-empty run of decimal digits
AllDigits(s) == s # << >> /\ \A i \in 1..Len(s) : s[i] \in Digits

AllSpace(s) == s # << >> /\ \A i \in 1..Len(s) : s[i] \in WhiteSpace

\* the positions <<a, b, c>> at which s reads W, white space, N, "/", D:
\* W ends at a, the white space at b, and the bar is at c
MixedSplits(s) ==
    { p \in (1..Len(s)) \X (1..Len(s)) \X (1..Len(s)) :
        /\ p[1] < p[2] /\ p[2] < p[3] /\ p[3] < Len(s)
        /\ AllDigits(SubSeq(s, 1, p[1]))
        /\ AllSpace(SubSeq(s, p[1] + 1, p[2]))
        /\ AllDigits(SubSeq(s, p[2] + 1, p[3] - 1))
        /\ s[p[3]] = "/"
        /\ AllDigits(SubSeq(s, p[3] + 1, Len(s))) }

\* the value W + N/D of a text of the shape 'W N/D'
MixedValue(s) ==
    LET p == CHOOSE q \in MixedSplits(s) : TRUE
    IN  RAdd(Rat(parseInt(SubSeq(s, 1, p[1])), 1),
             Rat(parseInt(SubSeq(s, p[2] + 1, p[3] - 1)),
                 parseInt(SubSeq(s, p[3] + 1, Len(s)))))

\* the positions of the bar at which s reads N, "/", D
FractionSplits(s) ==
    { c \in 1..Len(s) :
        /\ s[c] = "/"
        /\ AllDigits(SubSeq(s, 1, c - 1))
        /\ AllDigits(SubSeq(s, c + 1, Len(s))) }

\* the value N/D of a text of the shape 'N/D'
FractionValue(s) ==
    LET c == CHOOSE q \in FractionSplits(s) : TRUE
    IN  Rat(parseInt(SubSeq(s, 1, c - 1)), parseInt(SubSeq(s, c + 1, Len(s))))

\* a run of decimal digits, or nothing
NoneOrDigits(s) == \A i \in 1..Len(s) : s[i] \in Digits

\* the positions of the point at which s reads digits, ".", digits, with
\* digits on at least one side ('1.5', '.5', '1.')
DecimalSplits(s) ==
    { c \in 1..Len(s) :
        /\ s[c] = "."
        /\ Len(s) > 1
        /\ NoneOrDigits(SubSeq(s, 1, c - 1))
        /\ NoneOrDigits(SubSeq(s, c + 1, Len(s))) }

\* a plain integer or decimal
IsPlainNumber(s) == AllDigits(s) \/ DecimalSplits(s) # {}

PlainValue(s) ==
    IF AllDigits(s) THEN Rat(parseInt(s), 1)
    ELSE LET c    == CHOOSE q \in DecimalSplits(s) : TRUE
             frac == SubSeq(s, c + 1, Len(s))
         IN  Rat(parseInt(SubSeq(s, 1, c - 1)) * Pow10(Len(frac)) + parseInt(frac),
                 Pow10(Len(frac)))

\* what the text t stands for: 'W N/D' first, then 'N/D', then a plain
\* number; 0 for any other text
QuantityOfText(t) ==
    IF MixedSplits(t) # {} THEN MixedValue(t)
    ELSE IF FractionSplits(t) # {} THEN FractionValue(t)
    ELSE IF IsPlainNumber(t) THEN PlainValue(t)
    ELSE Zero

\* C21 (as claimed): parseQuantity returns a number for every input: a
\* number argument is returned as it is; a text of the shape 'W N/D' gives
\* W + N/D, one of the shape 'N/D' gives N/D, a plain decimal or integer
\* gives its value, and any other text gives 0.
C21_ParseQuantity ==
    result.fn = "parseQuantity" =>
        IF result.arg.type = "number" THEN result.value = result.arg.value
        ELSE /\ ~IsNaN(result.value)
             /\ result.value = QuantityOfText(trim(result.arg.value))

\* parseQuantity on the texts that have one of the three shapes, or hold no
\* digit at all, and whose denominator is not zero
C21_ShapedTexts ==
    (/\ result.fn = "parseQuantity"
     /\ result.arg.type = "string"
     /\ LET t == trim(result.arg.value)
        IN  /\ \/ MixedSplits(t) # {} \/ FractionSplits(t) # {} \/ IsPlainNumber(t)
               \/ \A i \in 1..Len(t) : t[i] \notin Digits
            /\ IsFinite(QuantityOfText(t)))
    => result.value = QuantityOfText(trim(result.arg.value))

\* the last call is normalizeUnit applied to the value of a normalizeUnit call
UnitAppliedTwice ==
    /\ result.fn = "normalizeUnit"
    /\ prev.fn = "normalizeUnit"
    /\ result.arg = prev.value

\* C22 (as claimed): normalizeUnit maps a unit that, lowercased and trimmed,
\* is a known synonym to the synonym's canonical token, returns every other
\* unit unchanged, and applied to its own value returns that value.
C22_NormalizeUnit ==
    result.fn = "normalizeUnit" =>
        LET unit == result.arg.value
            key  == trim(toLowerCase(unit))
        IN  /\ key \in DOMAIN unitMap => result.value.value = unitMap[key]
            /\ key \notin DOMAIN unitMap => result.value.value = unit
            /\ UnitAppliedTwice => result.value = prev.value

\* the same without the unknown units: known synonyms and idempotence
C22_KnownAndIdempotent ==
    result.fn = "normalizeUnit" =>
        LET key == trim(toLowerCase(result.arg.value))
        IN  /\ key \in DOMAIN unitMap => result.value.value = unitMap[key]
            /\ UnitAppliedTwice => result.value = prev.value

\* the last call is normalizeItemName applied to the value of a
\* normalizeItemName call
ItemNameAppliedTwice ==
    /\ result.fn = "normalizeItemName"
    /\ prev.fn = "normalizeItemName"
    /\ result.arg = prev.value

\* C23: normalizeItemName is idempotent: applied to the value it returned for
\* a name, it returns that value again.
C23_ItemNameIdempotent ==
    ItemNameAppliedTwice => result.value = prev.value

\* the name '  Ba\t' was normalized to 'ba', and 'ba' was normalized again
C23_Witness ==
    /\ ItemNameAppliedTwice
    /\ prev.arg.value = <<" ", " ", "B", "a", "\t">>
    /\ prev.value.value = <<"b", "a">>
    /\ result.value.value = <<"b", "a">>

\* the sum of the prices of the entries dated d with
\* weekStart <= d < weekStart + 7; entries without a date are left out
RECURSIVE WeekTotal(_, _)
WeekTotal(prices, weekStart) ==
    IF prices = << >> THEN Zero
    ELSE LET p    == prices[Len(prices)]
             rest == WeekTotal(SubSeq(prices, 1, Len(prices) - 1), weekStart)
         IN  IF /\ ~p.date.empty
                /\ weekStart <= p.date.day
                /\ p.date.day < weekStart + 7
             THEN RAdd(rest, parseFloat(p.price)) ELSE rest

BudgetRendered == budget.zone # "none"

\* C24 (as claimed): the actual total the budget view shows for a week is
\* the sum of the prices of exactly the entries dated within the week: its
\* Monday counts, the day 7 days later does not, undated entries do not.
C24_WeekTotalHalfOpen ==
    BudgetRendered => budget.lastWeekActual = WeekTotal(priceHistory, budget.weekStart)

\* the same in browsers whose clocks do not change during the week
C24_NoClockChange ==
    (BudgetRendered /\ ~(budget.zone = "America/New_York" /\ budget.weekStart = 0))
        => budget.lastWeekActual = WeekTotal(priceHistory, budget.weekStart)

\* both callers' generateShoppingList calls have completed
BothCompleted == \A c \in Callers : race.calls[c].pc = "done"

\* C25 (as claimed): once two interleaved generateShoppingList calls for a
\* week have both completed, the ShoppingList tab holds for that week exactly
\* the items one of the two calls generated, and the rows of the other weeks
\* are those the tab held before the calls.
C25_LastWriteWins ==
    BothCompleted =>
        /\ \E c \in Callers :
               ThisWeek(sheetShoppingList, ThisWeekStart) = race.calls[c].shoppingItems
        /\ OtherWeeks(sheetShoppingList, ThisWeekStart)
               = OtherWeeks(race.base, ThisWeekStart)

dataVars == <<catalogSheets, catalogCache, planVars, priceVars>>

\* C26: regeneration is never automatic: a step of the store that changes a
\* tab or a cached collection of recipes, ingredients, inventory, meal plan or
\* price history leaves the ShoppingList tab and the cached shopping list as
\* they were.
C26_NoAutomaticRegeneration ==
    [][(appShown /\ dataVars' # dataVars) => UNCHANGED shopVars]_vars

\* the list generated while the egg was out of stock still holds the egg,
\* although the egg is in stock now, the recipe has lost its flour and prices
\* have been logged
C26_Witness ==
    /\ appShown
    /\ \E k \in 1..Len(sheetShoppingList) :
           sheetShoppingList[k].item = Egg /\ sheetShoppingList[k].manual = "FALSE"
    /\ shoppingList = readAsObjects(sheetShoppingList)
    /\ \E k \in 1..Len(sheetInventory) :
           sheetInventory[k].item = Egg /\ sheetInventory[k].status = "have"
    /\ NotInRecipe("r1", Flour)
    /\ Len(sheetPriceHistory) = 2

\* C27: the planner's weekStart is always a Monday: when the view opens it is
\* the Monday of the week that holds today (a Sunday gives the Monday six
\* days earlier, a Monday itself), each navigation step moves it by exactly
\* seven days, and the week after the week before it is the week itself.
C27_WeekStartIsMonday ==
    planner.step # "closed" =>
        LET w     == planner.weekStart
            today == formatDate(planner.zone, planner.now)
        IN  /\ w % 7 = 0
            /\ planner.step = "open" => (w <= today /\ today <= w + 6)
            /\ planner.step = "previous" => w = planner.from - 7
            /\ planner.step = "next" => w = planner.from + 7
            /\ getNextWeek(planner.zone, getPreviousWeek(planner.zone, w)) = w
            /\ getPreviousWeek(planner.zone, getNextWeek(planner.zone, w)) = w

\* opened in Santiago on the Sunday the clocks went forward, the view has
\* stepped from the Monday before the change to the Monday after it
C27_Witness ==
    /\ planner.zone.name = "America/Santiago"
    /\ formatDate(planner.zone, planner.now) = -50
    /\ planner.step = "next"
    /\ planner.from = -56
    /\ planner.weekStart = -49

\* the entries of the tab for the week
getMealPlanForWeekOf(tab, weekStart) ==
    LET Is(m) == m.week_start = weekStart IN Filter(tab, Is)

\* the week of Weeks that is not w
OtherWeek(w) == CHOOSE o \in Weeks : o # w

\* the entries of the tab for the week and day, and all the others
OfDay(tab, weekStart, day) ==
    LET Is(m) == m.week_start = weekStart /\ m.day = day IN Filter(tab, Is)

NotOfDay(tab, weekStart, day) ==
    LET Keep(m) == ~(m.week_start = weekStart /\ m.day = day) IN Filter(tab, Keep)

\* C28 (as claimed): whatever the MealPlan tab holds when the call is made,
\* after clearMealFromPlan(week, day) the tab has no entry for the week and
\* day, after clearWeek(week) it has no entry for the week, and the other
\* entries are those from before the call.
C28_ClearRemovesEntries ==
    appShown =>
        \A w \in Weeks :
            /\ getMealPlanForWeekOf(clearWeek(sheetMealPlan, w), w) = << >>
            /\ getMealPlanForWeekOf(clearWeek(sheetMealPlan, w), OtherWeek(w))
                   = getMealPlanForWeekOf(sheetMealPlan, OtherWeek(w))
            /\ \A d \in Days :
                   /\ OfDay(clearMealFromPlan(sheetMealPlan, w, d), w, d) = << >>
                   /\ NotOfDay(clearMealFromPlan(sheetMealPlan, w, d), w, d)
                          = NotOfDay(sheetMealPlan, w, d)

\* the same whenever the call leaves an entry in the tab
C28_WhenEntriesRemain ==
    appShown =>
        \A w \in Weeks :
            /\ getMealPlanForWeekOf(sheetMealPlan, OtherWeek(w)) # << >> =>
                   /\ getMealPlanForWeekOf(clearWeek(sheetMealPlan, w), w) = << >>
                   /\ getMealPlanForWeekOf(clearWeek(sheetMealPlan, w), OtherWeek(w))
                          = getMealPlanForWeekOf(sheetMealPlan, OtherWeek(w))
            /\ \A d \in Days :
                   NotOfDay(sheetMealPlan, w, d) # << >> =>
                       /\ OfDay(clearMealFromPlan(sheetMealPlan, w, d), w, d) = << >>
                       /\ NotOfDay(clearMealFromPlan(sheetMealPlan, w, d), w, d)
                              = NotOfDay(sheetMealPlan, w, d)

\* the last request came from a wrapper operation
ViaWrapper == firestore.last.via = "wrapper"

\* C29 (as claimed): the rules grant a user access only to documents under
\* users/{their own uid}, and a wrapper operation targets the collection of
\* the user who is signed in when it is issued.
C29_PerUserIsolation ==
    /\ \A g \in firestore.granted : g.by = g.owner
    /\ ViaWrapper => firestore.last.owner = firestore.last.auth

\* the rules alone: an access was granted on another user's documents
C29_RulesIsolate ==
    \A g \in firestore.granted : g.by = g.owner

\* the wrapper alone: an operation issued while a user is signed in targets
\* that user's collection
C29_WrapperFollowsSignIn ==
    (ViaWrapper /\ firestore.last.auth # "none") =>
        firestore.last.owner = firestore.last.auth

\* what the rules do give: nothing is granted to a request without a user
C29_OnlyAuthenticated ==
    /\ \A g \in firestore.granted : g.by # "none"
    /\ firestore.last.allowed => firestore.last.auth # "none"

\* the loader has resolved by the end of the first poll that found the SDK,
\* and has rejected with the load failure exactly when maxAttempts polls
\* found none
SettlesAtThePoll(l) ==
    /\ l.sawSdk => l.outcome = "resolved"
    /\ l.outcome = "resolved" => l.sawSdk
    /\ (~l.sawSdk /\ l.polls = maxAttempts) =>
           (l.outcome = "rejected" /\ l.error = "load-failure")
    /\ l.outcome = "rejected" =>
           (l.error = "load-failure" /\ ~l.sawSdk /\ l.polls = maxAttempts)

\* the promise is settled at most once, no timer is pending and no poll runs
\* once it is settled or the SDK has been found, and there are at most
\* maxAttempts polls
SettlesOnce(l) ==
    /\ l.settles <= 1
    /\ l.outcome # "pending" => (l.settles = 1 /\ l.pc = "done")
    /\ l.pc = "scheduled" => (~l.sawSdk /\ l.polls = l.attempts)
    /\ l.sawSdk => l.polls = l.attempts + 1
    /\ l.polls <= maxAttempts

\* C30 (as claimed): each of waitForFirebase, loadGapi and loadGis resolves at
\* the first poll at which the SDK is present and otherwise rejects with the
\* load failure after maxAttempts polls; its promise is settled once and no
\* poll follows.
C30_LoadersTerminate ==
    SettlesAtThePoll(loader) /\ SettlesOnce(loader)

\* waitForFirebase does all of that
C30_WaitForFirebase ==
    loader.name = "firebase" => (SettlesAtThePoll(loader) /\ SettlesOnce(loader))

\* every loader stops polling and settles at most once
C30_PollingStops ==
    SettlesOnce(loader)

====
